---- MODULE Spec2Model ----
(***************************************************************************)
(* Story playback and voice-interaction engine of the storytelling app:    *)
(* the StoryPlayer component (src/components/StoryPlayer.tsx, second       *)
(* component of the file), the speech capture hook                         *)
(* (src/hooks/useSpeechRecognition.ts) and the narration audio unit        *)
(* (playTextToSpeech / stopAudio in src/services/geminiService.ts).        *)
(*                                                                         *)
(* React is modelled by its commit semantics: a handler's state updates    *)
(* are batched, the component re-renders once, and the effects whose       *)
(* dependencies changed run in declaration order (all cleanups first).     *)
(* A handler and the commit it causes form one atomic step; a closure      *)
(* (callback, timer) keeps the values of the render that created it.       *)
(* Strings are sequences of one-character strings.                         *)
(***************************************************************************)
EXTENDS Integers, Sequences, FiniteSets, TLC

VARIABLES
    story,              \* props.story.nodes : node id -> node (read-only)
    micAvailable,       \* window.SpeechRecognition exists
    hasSynth,           \* window.speechSynthesis exists
    mounted,            \* the StoryPlayer is mounted (App.isPlaying)
    currentNodeId,      \* useState('start'); currentNodeIdRef follows it in the same commit
    interactionState,   \* useState('reading')
    history,            \* useState([]) : visited node ids for Back
    currentTtsModel,    \* useState(story.ttsModel)
    showModelSwitcher,  \* useState(false)
    speechHistoryRef,   \* useRef([]) : utterances accepted at this node
    retryCountRef,      \* useRef(0)
    speechEndNode,      \* currentNodeId of the render that memoized handleSpeechEnd
    activeRequestId,    \* module-level narration request token
    requests,           \* playTextToSpeech calls whose continuation is pending
    timers,             \* pending setTimeout callbacks of the node narration onEnd
    pendingComplete,    \* pending setTimeout(onComplete, ...) callbacks
    completes,          \* number of onComplete() calls delivered to App
    choices,            \* App.choices : the choice events delivered by onChoiceMade
    calls,              \* analyzeChildInput calls in flight
    isListening,        \* hook state isListening
    transcript,         \* hook state transcript
    finalTranscriptRef, \* hook ref finalTranscriptRef
    recognitionRef,     \* the SpeechRecognition instance recognitionRef.current
    orphans,            \* instances replaced in recognitionRef while a session was open on them
    events,             \* user gestures, failed synthesis calls and recognition results so far
    last,               \* history variable: the operation of the last step
    retryRun,           \* one call of withRetry: its position, arguments and outcome
    backgroundQueue,    \* the RateLimiter instance backgroundQueue, with the time since a task ended
    audioCache,         \* memoryCache and the audio store for one cache key, with the requests for it
    matchRun,           \* one application of matchIntentLocally: its transcript and its result
    analyzeRun,         \* one call of analyzeChildInput: the outcome of its remote call and its result
    imageCache,         \* the image store and the calls of generateSceneImage, for one cache key
    speechRun,          \* calls of constructNodeSpeech on one node, and what they returned
    captureRun          \* the useSpeechRecognition hook alone: its state, refs, instances and timers

player == <<story, micAvailable, hasSynth, mounted, currentNodeId, interactionState,
          history, currentTtsModel, showModelSwitcher, speechHistoryRef, retryCountRef,
          speechEndNode, activeRequestId, requests, timers, pendingComplete, completes,
          choices, calls, isListening, transcript, finalTranscriptRef, recognitionRef,
          orphans, events, last>>

vars == <<player, retryRun, backgroundQueue, audioCache, matchRun, analyzeRun, imageCache,
          speechRun, captureRun>>

-----------------------------------------------------------------------------
(* Bounds of the exploration *)

MaxRequestId == 30      \* narration request tokens issued in one run
MaxRetry == 2           \* value retryCountRef may reach through clarifications
MaxUtterances == 2      \* utterances kept in speechHistoryRef
MaxFinalLen == 1        \* characters accumulated in finalTranscriptRef
MaxChoices == 2         \* choice events delivered in one run
MaxComplete == 2        \* onComplete callbacks scheduled or delivered in one run
MaxStale == 1           \* superseded narration requests in flight at a time
MaxOrphans == 1         \* replaced recognition instances with a session still open
MaxTextLen == 5         \* parts of the response text of a classification call
MaxSpeechLen == 2       \* characters of the text of a node given to constructNodeSpeech
MaxLabels == 2          \* options of a node given to constructNodeSpeech
MaxImages == 2          \* calls of generateSceneImage for the key
MaxPlays == 2           \* playTextToSpeech requests for the cache key in one run
MaxPrefetches == 2      \* prefetchAudio calls for the cache key in one run
MaxTasks == 6           \* add() calls on the background rate limiter in one run
TickMs == 500           \* the step in which time since the last task end is observed
MaxInstances == 4       \* SpeechRecognition instances the hook makes in one run
MaxResults == 3         \* recognition results the hook receives in one run
MaxEvents == 2          \* user gestures, failed synthesis calls and recognition results in one run

null == -1              \* matchIntentLocally's null
NoNext == "none"        \* StoryNode.next undefined

-----------------------------------------------------------------------------
(* Strings *)

ToLowerChar(c) == IF c = "A" THEN "a" ELSE IF c = "B" THEN "b" ELSE c

toLowerCase(str) == [i \in 1..Len(str) |-> ToLowerChar(str[i])]

includes(str, sub) ==
    \E i \in 0..(Len(str) - Len(sub)) : SubSeq(str, i + 1, i + Len(sub)) = sub

RECURSIVE trimStart(_)
trimStart(str) == IF str # <<>> /\ Head(str) = " " THEN trimStart(Tail(str)) ELSE str

RECURSIVE trimEnd(_)
trimEnd(str) ==
    IF str # <<>> /\ str[Len(str)] = " " THEN trimEnd(SubSeq(str, 1, Len(str) - 1)) ELSE str

trim(str) == trimEnd(trimStart(str))

-----------------------------------------------------------------------------
(* Story graphs *)

Option(label, keywords, next, type) ==
    [label |-> label, keywords |-> keywords, next |-> next, type |-> type]

Linear(next) == [type |-> "linear", next |-> next, options |-> <<>>]
Choice(options) == [type |-> "choice", next |-> NoNext, options |-> options]
End == [type |-> "end", next |-> NoNext, options |-> <<>>]

OptA(next) == Option(<<"A">>, <<>>, next, "brave")
OptB(next) == Option(<<"B">>, << <<"b", "b">> >>, next, "kind")

\* A story that opens on a linear node and chains two choice nodes.
StoryLinearStart ==
    ("start" :> Linear("q1")) @@ ("q1" :> Choice(<<OptA("q2"), OptB("endB")>>))
    @@ ("q2" :> Choice(<<OptA("endA"), OptB("endB")>>))
    @@ ("endA" :> End) @@ ("endB" :> End)

\* A story that opens on a choice node, one option of which points at a missing node.
StoryChoiceStart ==
    ("start" :> Choice(<<OptA("fin"), OptB("ghost")>>)) @@ ("fin" :> End)

\* A story whose only node is linear and points at a missing node.
StoryDangling == "start" :> Linear("ghost")

Stories == {StoryLinearStart, StoryChoiceStart, StoryDangling}

\* The end-to-end story of the specification: start -> q1 -> endA / endB.
StoryEndToEnd ==
    ("start" :> Linear("q1")) @@ ("q1" :> Choice(<<OptA("endA"), OptB("endB")>>))
    @@ ("endA" :> End) @@ ("endB" :> End)

\* What the recognizer hears in the end-to-end scenario: the label of option A
\* as written, and a sound matching nothing.
E2EUtterances == {<<"A">>, <<"x">>}

\* What the recognizer can hear as a final result: the label of option A in
\* lower case, and a sound matching nothing; as an interim result: the latter.
Utterances == {<<"a">>, <<"x">>}
InterimUtterances == {<<"x">>}

AVAILABLE_TTS_MODELS ==
    <<"gemini-2.5-flash-preview-tts", "gemini-2.5-flash-native-audio-preview-09-2025",
      "gemini-2.5-flash", "browser-tts">>

AVAILABLE_VOICES == {"Kore", "Puck", "Charon", "Fenrir", "Zephyr", "Aoede"}

storyVoice == "Zephyr"
storyTtsModel == "gemini-2.5-flash-preview-tts"

sanitizeModel(model) == model   \* every model the player can hold is in AVAILABLE_TTS_MODELS

-----------------------------------------------------------------------------
(* The program state as one record, so that a handler is a composition of  *)
(* the functions it calls.                                                *)

Cur ==
    [mounted |-> mounted, node |-> currentNodeId, ist |-> interactionState,
     history |-> history, model |-> currentTtsModel, switcher |-> showModelSwitcher,
     speechHist |-> speechHistoryRef, retry |-> retryCountRef, seNode |-> speechEndNode,
     reqId |-> activeRequestId, reqs |-> requests, timers |-> timers,
     pendC |-> pendingComplete, completes |-> completes, choices |-> choices,
     calls |-> calls, isL |-> isListening, trans |-> transcript,
     finalRef |-> finalTranscriptRef, ref |-> recognitionRef, orphans |-> orphans]

\* The bounds of the exploration: a step is explored only if its result is within them.
WithinBounds(s) ==
    /\ (\E r \in s.reqs : r.id > activeRequestId) =>
          /\ \A r \in s.reqs : r.id <= MaxRequestId
          /\ Cardinality({r \in s.reqs : r.id # s.reqId}) <= MaxStale
    /\ Cardinality(s.orphans) <= MaxOrphans
    /\ Len(s.speechHist) <= MaxUtterances
    /\ s.retry <= MaxRetry
    /\ Len(s.choices) <= MaxChoices
    /\ s.pendC + s.completes <= MaxComplete
    /\ Len(s.finalRef) <= MaxFinalLen

UserOps == {"back", "next", "replay", "tap", "orb", "exit"}
FaultOps == {"synthQuota", "synthError"}
HeardOps == {"finalResult", "interimResult"}

\* The player takes the state s; l describes the step.
Assign(s, l) ==
    /\ mounted' = s.mounted
    /\ currentNodeId' = s.node
    /\ interactionState' = s.ist
    /\ history' = s.history
    /\ currentTtsModel' = s.model
    /\ showModelSwitcher' = s.switcher
    /\ speechHistoryRef' = s.speechHist
    /\ retryCountRef' = s.retry
    /\ speechEndNode' = s.seNode
    /\ activeRequestId' = s.reqId
    /\ requests' = s.reqs
    /\ timers' = s.timers
    /\ pendingComplete' = s.pendC
    /\ completes' = s.completes
    /\ choices' = s.choices
    /\ calls' = s.calls
    /\ isListening' = s.isL
    /\ transcript' = s.trans
    /\ finalTranscriptRef' = s.finalRef
    /\ recognitionRef' = s.ref
    /\ orphans' = s.orphans
    /\ last' = l
    /\ events' = IF l.op \in UserOps \cup FaultOps \cup HeardOps THEN events + 1 ELSE events
    /\ UNCHANGED <<story, micAvailable, hasSynth>>

Apply(s, l) ==
    /\ WithinBounds(s)
    /\ Assign(s, l)
    /\ events' <= MaxEvents
    /\ UNCHANGED <<retryRun, backgroundQueue, audioCache, matchRun, analyzeRun, imageCache,
                   speechRun, captureRun>>

\* stale: what the step handled belongs to an abandoned context (a superseded
\* request, a node that is no longer current); left: the node was left since it
\* was scheduled.
\* how, arg: for the end of a capture session, the phase the session was in
\* and the transcript given to onEnd; how, for a classification that resolved
\* at its own node: "selected" (an option index) or "unknown" (anything else).
Last(op, stale, left) ==
    [op |-> op, stale |-> stale, left |-> left, how |-> "", arg |-> <<>>]

\* React ignores a state update of an unmounted component.
setInteractionState(s, v) == IF s.mounted THEN [s EXCEPT !.ist = v] ELSE s
setIsListening(s, v) == IF s.mounted THEN [s EXCEPT !.isL = v] ELSE s
setTranscript(s, v) == IF s.mounted THEN [s EXCEPT !.trans = v] ELSE s
setShowModelSwitcher(s, v) == IF s.mounted THEN [s EXCEPT !.switcher = v] ELSE s

-----------------------------------------------------------------------------
(* Narration audio unit *)

\* A source or utterance that is sounding is stopped; its ended event is still to come.
\* stopAudio advancing the token only, leaving the sources playing.
stopAudioTokenOnly(s) == [s EXCEPT !.reqId = @ + 1]

stopAudio(s) ==
    [s EXCEPT !.reqId = @ + 1,
              !.reqs = {IF r.phase = "playing" THEN [r EXCEPT !.phase = "stopped"] ELSE r
                          : r \in @}]

Request(kind, node, mic, lis, opt, text, histNode) ==
    [id |-> 0, kind |-> kind, phase |-> "synth", path |-> "cloud", node |-> node,
     mic |-> mic, lis |-> lis, opt |-> opt, text |-> text, histNode |-> histNode,
     left |-> FALSE]

playBrowserTTS(s, r) ==
    IF hasSynth
    THEN [s EXCEPT !.reqs =
             {IF q.phase = "playing" /\ q.path = "local" THEN [q EXCEPT !.phase = "stopped"]
              ELSE q : q \in (@ \ {r})}
             \cup {[r EXCEPT !.phase = "playing", !.path = "local"]}]
    ELSE [s EXCEPT !.reqs = (@ \ {r}) \cup {[r EXCEPT !.phase = "timer", !.path = "none"]}]

isCloudVoice(voiceName) == voiceName \in AVAILABLE_VOICES

playTextToSpeech(s, req, model) ==
    LET s1 == stopAudio(s)
        requestId == s1.reqId + 1
        s2 == [s1 EXCEPT !.reqId = requestId]
        r == [req EXCEPT !.id = requestId]
    IN  IF sanitizeModel(model) = "browser-tts" \/ ~isCloudVoice(storyVoice)
        THEN playBrowserTTS(s2, r)
        ELSE [s2 EXCEPT !.reqs = @ \cup {r}]

-----------------------------------------------------------------------------
(* withRetry *)

DefaultRetries == 3
DefaultBaseDelay == 2000

\* An error as withRetry inspects it: status, code, and the message as the
\* sequence of its parts.
Error(status, code, message) == [status |-> status, code |-> code, message |-> message]

NoError == Error(0, 0, <<>>)
ErrRateStatus == Error(429, 0, <<"Too Many Requests">>)
ErrRateCode == Error(0, 429, <<"RESOURCE_EXHAUSTED">>)
ErrRateMessage == Error(0, 0, <<"got status: ", "429">>)
ErrLimitZero == Error(429, 429, <<"quota metric, ", "limit: 0">>)
ErrQuotaExceeded == Error(0, 0, <<"Quota exceeded", " for today">>)
ErrNetwork == Error(0, 0, <<"Failed to fetch">>)
ErrServer == Error(503, 503, <<"The model is overloaded">>)
ErrAuth == Error(400, 400, <<"API key not valid">>)

\* What the remote operation may throw.
RemoteErrors ==
    {ErrRateStatus, ErrRateCode, ErrRateMessage, ErrLimitZero, ErrQuotaExceeded, ErrNetwork,
     ErrServer, ErrAuth}

\* What getAI throws without an API key.
ErrNoKey == Error(0, 0, <<"API Key is missing">>)

QuotaExhaustedError == Error(0, 0, <<"API_QUOTA_EXHAUSTED">>)

\* The delay without the doubling.
backoffDelayFlat(baseDelay, retries) == baseDelay

isQuotaError(error) ==
    error.status = 429 \/ error.code = 429 \/ includes(error.message, <<"429">>)

isLimitZero(error) ==
    includes(error.message, <<"limit: 0">>) \/ includes(error.message, <<"Quota exceeded">>)

backoffDelay(baseDelay, retries) == baseDelay * 2 ^ (3 - retries)

\* failures: the errors caught so far; delays: the delays awaited or being
\* awaited; opCalls: invocations of the operation; emitted: error bus levels.
RetryIdle ==
    [pc |-> "idle", key |-> TRUE, retries |-> DefaultRetries, baseDelay |-> DefaultBaseDelay,
     failures |-> <<>>, delays |-> <<>>, opCalls |-> 0, emitted |-> <<>>,
     result |-> [ok |-> FALSE, error |-> NoError]]

\* The catch block without the test for quota exhaustion.
withRetryCatchNoLimitTest(r, error) ==
    LET r1 == [r EXCEPT !.failures = Append(@, error)]
    IN  IF isQuotaError(error) /\ r.retries > 0
        THEN [r1 EXCEPT !.pc = "wait",
                        !.delays = Append(@, backoffDelay(r.baseDelay, r.retries))]
        ELSE [r1 EXCEPT !.pc = "done", !.result = [ok |-> FALSE, error |-> error]]

\* The catch block retrying after every error but quota exhaustion.
withRetryCatchAnyError(r, error) ==
    LET r1 == [r EXCEPT !.failures = Append(@, error)]
    IN  IF isLimitZero(error)
        THEN [r1 EXCEPT !.pc = "done",
                        !.result = [ok |-> FALSE, error |-> QuotaExhaustedError]]
        ELSE IF r.retries > 0
        THEN [r1 EXCEPT !.pc = "wait",
                        !.delays = Append(@, backoffDelay(r.baseDelay, r.retries))]
        ELSE [r1 EXCEPT !.pc = "done", !.result = [ok |-> FALSE, error |-> error]]

\* The catch block of withRetry.
withRetryCatch(r, error) ==
    LET r1 == [r EXCEPT !.failures = Append(@, error)]
    IN  IF isLimitZero(error)
        THEN [r1 EXCEPT !.pc = "done", !.emitted = Append(@, "error"),
                        !.result = [ok |-> FALSE, error |-> QuotaExhaustedError]]
        ELSE IF isQuotaError(error) /\ r.retries > 0
        THEN [r1 EXCEPT !.pc = "wait",
                        !.emitted = IF r.retries = 3 THEN Append(@, "warning") ELSE @,
                        !.delays = Append(@, backoffDelay(r.baseDelay, r.retries))]
        ELSE [r1 EXCEPT !.pc = "done", !.result = [ok |-> FALSE, error |-> error]]

\* withRetry(operation) with the default retries and baseDelay.
withRetryCall(key) ==
    /\ retryRun.pc = "idle"
    /\ retryRun' = [RetryIdle EXCEPT !.pc = "try", !.key = key]
    /\ UNCHANGED <<player, matchRun, analyzeRun, imageCache, speechRun, captureRun, backgroundQueue, audioCache>>

\* getAI() throws inside the try block.
getAIFails ==
    /\ retryRun.pc = "try" /\ ~retryRun.key
    /\ retryRun' = withRetryCatch(retryRun, ErrNoKey)
    /\ UNCHANGED <<player, matchRun, analyzeRun, imageCache, speechRun, captureRun, backgroundQueue, audioCache>>

operationOk ==
    /\ retryRun.pc = "try" /\ retryRun.key
    /\ retryRun' = [retryRun EXCEPT !.pc = "done", !.opCalls = @ + 1,
                                     !.result = [ok |-> TRUE, error |-> NoError]]
    /\ UNCHANGED <<player, matchRun, analyzeRun, imageCache, speechRun, captureRun, backgroundQueue, audioCache>>

operationFails(error) ==
    /\ retryRun.pc = "try" /\ retryRun.key
    /\ retryRun' = withRetryCatch([retryRun EXCEPT !.opCalls = @ + 1], error)
    /\ UNCHANGED <<player, matchRun, analyzeRun, imageCache, speechRun, captureRun, backgroundQueue, audioCache>>

\* The delay has elapsed: withRetry(operation, retries - 1, baseDelay).
delayElapsed ==
    /\ retryRun.pc = "wait"
    /\ retryRun' = [retryRun EXCEPT !.pc = "try", !.retries = @ - 1]
    /\ UNCHANGED <<player, matchRun, analyzeRun, imageCache, speechRun, captureRun, backgroundQueue, audioCache>>

\* The attempt in progress settles.
attemptSettles == getAIFails \/ operationOk \/ \E error \in RemoteErrors : operationFails(error)

-----------------------------------------------------------------------------
(* RateLimiter *)

gap == 1500

\* queue, processing: the fields of the class. pc: where the loop of process()
\* is suspended. Tasks are numbered in the order of their add() calls.
\* inFlight: tasks started and not settled; started: the tasks in the order
\* they were started; ended: number of settled tasks; elapsed: time since the
\* last task settled, observed up to gap; added: number of add() calls;
\* rejected: the tasks that threw or rejected; queuedBehind: the tasks whose
\* add() found the loop running (a task in flight or the delay pending).
NewRateLimiter ==
    [queue |-> <<>>, processing |-> FALSE, pc |-> "idle", inFlight |-> {}, started |-> <<>>,
     ended |-> 0, elapsed |-> 0, added |-> 0, rejected |-> {}, queuedBehind |-> {}]

\* The head of the while loop of process(): the next task is taken and
\* started, or the loop ends.
loopHead(q) ==
    IF Len(q.queue) > 0
    THEN [q EXCEPT !.queue = Tail(@), !.inFlight = @ \cup {Head(q.queue)},
                   !.started = Append(@, Head(q.queue)), !.pc = "task"]
    ELSE [q EXCEPT !.processing = FALSE, !.pc = "idle"]

process(q) == IF q.processing THEN q ELSE loopHead([q EXCEPT !.processing = TRUE])

\* The loop body without the try / catch: a rejection ends process() where it
\* stands, with processing still true.
afterTaskUncaught(q, ok) ==
    IF ~ok THEN [q EXCEPT !.pc = "thrown"]
    ELSE IF Len(q.queue) > 0 THEN [q EXCEPT !.pc = "gap"] ELSE loopHead(q)

\* The loop body after `await task()`; the catch block swallows a rejection.
afterTask(q, ok) == IF Len(q.queue) > 0 THEN [q EXCEPT !.pc = "gap"] ELSE loopHead(q)

add ==
    /\ backgroundQueue.added < MaxTasks
    /\ backgroundQueue' =
          process([backgroundQueue EXCEPT
                      !.queue = Append(@, backgroundQueue.added + 1),
                      !.added = @ + 1,
                      !.queuedBehind = IF backgroundQueue.processing
                                       THEN @ \cup {backgroundQueue.added + 1} ELSE @])
    /\ UNCHANGED <<player, matchRun, analyzeRun, imageCache, speechRun, captureRun, retryRun, audioCache>>

taskSettles(task, ok) ==
    /\ backgroundQueue.pc = "task" /\ task \in backgroundQueue.inFlight
    /\ backgroundQueue' =
          afterTask([backgroundQueue EXCEPT !.inFlight = @ \ {task}, !.ended = @ + 1,
                                            !.elapsed = 0,
                                            !.rejected = IF ok THEN @ ELSE @ \cup {task}],
                    ok)
    /\ UNCHANGED <<player, matchRun, analyzeRun, imageCache, speechRun, captureRun, retryRun, audioCache>>

\* The timer of `await new Promise(resolve => setTimeout(resolve, this.gap))`.
gapElapsed ==
    /\ backgroundQueue.pc = "gap" /\ backgroundQueue.elapsed >= gap
    /\ backgroundQueue' = loopHead(backgroundQueue)
    /\ UNCHANGED <<player, matchRun, analyzeRun, imageCache, speechRun, captureRun, retryRun, audioCache>>

\* Time passes while no task runs.
timePasses ==
    /\ backgroundQueue.ended > 0 /\ backgroundQueue.inFlight = {}
    /\ backgroundQueue.elapsed < gap
    /\ backgroundQueue' =
          [backgroundQueue EXCEPT !.elapsed = IF @ + TickMs > gap THEN gap ELSE @ + TickMs]
    /\ UNCHANGED <<player, matchRun, analyzeRun, imageCache, speechRun, captureRun, retryRun, audioCache>>

-----------------------------------------------------------------------------
(* Audio cache: memoryCache and the audio store, for one cache key *)

\* No entry in memoryCache.
NoRef == <<>>

\* memory: the request whose promise memoryCache holds for the key, or NoRef;
\* db: the audio store holds the key; token: activeRequestId; procs: the
\* requests, each with the place it is suspended at (pc), the state of the
\* promise it owns and the promise it awaits (ref); plays, prefetches: calls
\* so far; calls: remote synthesis calls started; succeeded: remote synthesis
\* calls that returned audio.
EmptyAudioCache ==
    [memory |-> NoRef, db |-> FALSE, token |-> 0, procs |-> {}, plays |-> 0,
     prefetches |-> 0, calls |-> 0, succeeded |-> 0]

Proc(kind, id, pc) ==
    [kind |-> kind, id |-> id, pc |-> pc, promise |-> "none", ref |-> NoRef]

RefOf(p) == <<p.kind, p.id>>

\* The request p of cache c goes on as q.
Becomes(c, p, q) == [c EXCEPT !.procs = (@ \ {p}) \cup {q}]

\* The state of the promise that ref denotes.
PromiseOf(c, ref) == (CHOOSE p \in c.procs : RefOf(p) = ref).promise

\* playTextToSpeech on the cloud path, up to `await getAudioContext()`.
playStart ==
    /\ audioCache.plays < MaxPlays
    /\ audioCache' =
          [audioCache EXCEPT !.token = @ + 1, !.plays = @ + 1,
                             !.procs = @ \cup {Proc("play", audioCache.token + 1, "ctx")}]
    /\ UNCHANGED <<player, matchRun, analyzeRun, imageCache, speechRun, captureRun, retryRun, backgroundQueue>>

\* getAudioContext() resolved: the token test, then the look into memoryCache.
playCtx(p) ==
    /\ p.kind = "play" /\ p.pc = "ctx"
    /\ audioCache' =
          IF p.id # audioCache.token THEN Becomes(audioCache, p, [p EXCEPT !.pc = "dropped"])
          ELSE IF audioCache.memory # NoRef
          THEN Becomes(audioCache, p, [p EXCEPT !.pc = "memWait", !.ref = audioCache.memory])
          ELSE Becomes(audioCache, p, [p EXCEPT !.pc = "db"])
    /\ UNCHANGED <<player, matchRun, analyzeRun, imageCache, speechRun, captureRun, retryRun, backgroundQueue>>

\* `await memoryCache.get(cacheKey)` settles: the buffer, or the catch block.
playMemSettles(p) ==
    /\ p.kind = "play" /\ p.pc = "memWait"
    /\ PromiseOf(audioCache, p.ref) \in {"fulfilled", "rejected"}
    /\ audioCache' =
          IF PromiseOf(audioCache, p.ref) = "fulfilled"
          THEN Becomes(audioCache, p,
                       [p EXCEPT !.pc = IF p.id = audioCache.token THEN "played"
                                        ELSE "dropped"])
          ELSE Becomes([audioCache EXCEPT !.memory = NoRef], p, [p EXCEPT !.pc = "db"])
    /\ UNCHANGED <<player, matchRun, analyzeRun, imageCache, speechRun, captureRun, retryRun, backgroundQueue>>

\* `await storageService.getAudio(cacheKey)` resolved.
playDb(p) ==
    /\ p.kind = "play" /\ p.pc = "db"
    /\ audioCache' =
          IF audioCache.db
          THEN Becomes([audioCache EXCEPT !.memory = RefOf(p)], p,
                       [p EXCEPT !.pc = "decode", !.promise = "pending"])
          ELSE Becomes([audioCache EXCEPT !.calls = @ + 1], p, [p EXCEPT !.pc = "fetch"])
    /\ UNCHANGED <<player, matchRun, analyzeRun, imageCache, speechRun, captureRun, retryRun, backgroundQueue>>

\* withRetry(generateContent) returned audio: the token test, then saveAudio
\* and memoryCache.set.
playFetchOk(p) ==
    /\ p.kind = "play" /\ p.pc = "fetch"
    /\ audioCache' =
          IF p.id # audioCache.token
          THEN Becomes([audioCache EXCEPT !.succeeded = @ + 1], p, [p EXCEPT !.pc = "dropped"])
          ELSE Becomes([audioCache EXCEPT !.succeeded = @ + 1, !.db = TRUE,
                                          !.memory = RefOf(p)],
                       p, [p EXCEPT !.pc = "decode", !.promise = "pending"])
    /\ UNCHANGED <<player, matchRun, analyzeRun, imageCache, speechRun, captureRun, retryRun, backgroundQueue>>

\* withRetry(generateContent) threw: the catch block of playTextToSpeech.
playFetchFail(p) ==
    /\ p.kind = "play" /\ p.pc = "fetch"
    /\ audioCache' =
          Becomes(audioCache, p,
                  [p EXCEPT !.pc = IF p.id = audioCache.token THEN "fallback" ELSE "dropped"])
    /\ UNCHANGED <<player, matchRun, analyzeRun, imageCache, speechRun, captureRun, retryRun, backgroundQueue>>

\* decodeAudioData resolved: the token test, then source.start().
playDecoded(p) ==
    /\ p.kind = "play" /\ p.pc = "decode"
    /\ audioCache' =
          Becomes(audioCache, p,
                  [p EXCEPT !.promise = "fulfilled",
                            !.pc = IF p.id = audioCache.token THEN "played" ELSE "dropped"])
    /\ UNCHANGED <<player, matchRun, analyzeRun, imageCache, speechRun, captureRun, retryRun, backgroundQueue>>

\* prefetchAudio for a cloud voice and model, up to the first await.
prefetchAudio ==
    /\ audioCache.prefetches < MaxPrefetches
    /\ audioCache' =
          IF audioCache.memory # NoRef
          THEN [audioCache EXCEPT !.prefetches = @ + 1]
          ELSE LET q == [Proc("prefetch", audioCache.prefetches + 1, "db")
                            EXCEPT !.promise = "pending"]
               IN  [audioCache EXCEPT !.prefetches = @ + 1, !.procs = @ \cup {q},
                                      !.memory = RefOf(q)]
    /\ UNCHANGED <<player, matchRun, analyzeRun, imageCache, speechRun, captureRun, retryRun, backgroundQueue>>

\* The first `await storageService.getAudio(key)` resolved: decode, or
\* backgroundQueue.add.
prefetchDb(q) ==
    /\ q.kind = "prefetch" /\ q.pc = "db"
    /\ audioCache' =
          Becomes(audioCache, q, [q EXCEPT !.pc = IF audioCache.db THEN "decode" ELSE "queued"])
    /\ UNCHANGED <<player, matchRun, analyzeRun, imageCache, speechRun, captureRun, retryRun, backgroundQueue>>

\* The rate limiter starts the queued task.
prefetchTask(q) ==
    /\ q.kind = "prefetch" /\ q.pc = "queued"
    /\ audioCache' = Becomes(audioCache, q, [q EXCEPT !.pc = "db2"])
    /\ UNCHANGED <<player, matchRun, analyzeRun, imageCache, speechRun, captureRun, retryRun, backgroundQueue>>

\* The second look into the store, inside the task.
prefetchDb2(q) ==
    /\ q.kind = "prefetch" /\ q.pc = "db2"
    /\ audioCache' =
          IF audioCache.db THEN Becomes(audioCache, q, [q EXCEPT !.pc = "decode"])
          ELSE Becomes([audioCache EXCEPT !.calls = @ + 1], q, [q EXCEPT !.pc = "fetch"])
    /\ UNCHANGED <<player, matchRun, analyzeRun, imageCache, speechRun, captureRun, retryRun, backgroundQueue>>

\* withRetry(generateContent) returned audio: `await saveAudio`, then decode.
prefetchFetchOk(q) ==
    /\ q.kind = "prefetch" /\ q.pc = "fetch"
    /\ audioCache' =
          Becomes([audioCache EXCEPT !.succeeded = @ + 1, !.db = TRUE], q,
                  [q EXCEPT !.pc = "decode"])
    /\ UNCHANGED <<player, matchRun, analyzeRun, imageCache, speechRun, captureRun, retryRun, backgroundQueue>>

\* A failed prefetch handled as the narration handles a failed synthesis of
\* the current node: the player stops reading.
prefetchFetchFailSurfaced(q) ==
    /\ q.kind = "prefetch" /\ q.pc = "fetch"
    /\ audioCache' =
          Becomes([audioCache EXCEPT !.memory = NoRef], q,
                  [q EXCEPT !.pc = "rejected", !.promise = "rejected"])
    /\ Assign(setInteractionState(Cur, "waiting"), last)
    /\ UNCHANGED <<matchRun, analyzeRun, imageCache, speechRun, captureRun, retryRun, backgroundQueue>>

\* The task threw: memoryCache.delete(key); reject(e).
prefetchFetchFail(q) ==
    /\ q.kind = "prefetch" /\ q.pc = "fetch"
    /\ audioCache' =
          Becomes([audioCache EXCEPT !.memory = NoRef], q,
                  [q EXCEPT !.pc = "rejected", !.promise = "rejected"])
    /\ UNCHANGED <<player, matchRun, analyzeRun, imageCache, speechRun, captureRun, retryRun, backgroundQueue>>

\* decodeAudioData resolved: resolve(buffer).
prefetchDecoded(q) ==
    /\ q.kind = "prefetch" /\ q.pc = "decode"
    /\ audioCache' = Becomes(audioCache, q, [q EXCEPT !.pc = "resolved", !.promise = "fulfilled"])
    /\ UNCHANGED <<player, matchRun, analyzeRun, imageCache, speechRun, captureRun, retryRun, backgroundQueue>>

-----------------------------------------------------------------------------
(* generateSceneImage for the illustration of a successor node: one cache key *)

\* stored: the image store holds the key; pc: where the call is suspended;
\* calls: calls so far.
NoImages == [stored |-> FALSE, pc |-> "idle", calls |-> 0]

\* The prefetch timer calls generateSceneImage(node.imagePrompt, key).
generateSceneImage ==
    /\ imageCache.pc = "idle" /\ imageCache.calls < MaxImages
    /\ imageCache' = [imageCache EXCEPT !.pc = "db", !.calls = @ + 1]
    /\ UNCHANGED <<player, matchRun, analyzeRun, speechRun, captureRun, audioCache, retryRun,
                   backgroundQueue>>

\* `await storageService.getImage(cacheKey)` resolved.
imageDb ==
    /\ imageCache.pc = "db"
    /\ imageCache' = [imageCache EXCEPT !.pc = IF imageCache.stored THEN "idle" ELSE "fetch"]
    /\ UNCHANGED <<player, matchRun, analyzeRun, speechRun, captureRun, audioCache, retryRun,
                   backgroundQueue>>

\* withRetry(generateContent) returned an image: saveImage.
imageFetchOk ==
    /\ imageCache.pc = "fetch"
    /\ imageCache' = [imageCache EXCEPT !.pc = "idle", !.stored = TRUE]
    /\ UNCHANGED <<player, matchRun, analyzeRun, speechRun, captureRun, audioCache, retryRun,
                   backgroundQueue>>

\* withRetry(generateContent) threw, or returned no image: undefined; the
\* caller drops the result.
imageFetchFail ==
    /\ imageCache.pc = "fetch"
    /\ imageCache' = [imageCache EXCEPT !.pc = "idle"]
    /\ UNCHANGED <<player, matchRun, analyzeRun, speechRun, captureRun, audioCache, retryRun,
                   backgroundQueue>>

-----------------------------------------------------------------------------
(* Speech capture hook *)

\* node is the node that was current when the session of the instance was opened.
NoInstance ==
    [phase |-> "none", trans |-> <<>>, capNode |-> "start", model |-> storyTtsModel,
     node |-> NoNext]

\* The effect of useSpeechRecognition: a new SpeechRecognition whose handlers close
\* over the transcript and onEnd of the render that ran the effect.
\* The instance it replaces is not stopped.
newInstance(s) ==
    [s EXCEPT !.orphans = IF s.ref.phase \in {"open", "ending", "aborted"} THEN @ \cup {s.ref} ELSE @,
              !.ref = [phase |-> "idle", trans |-> s.trans, capNode |-> s.seNode,
                       model |-> s.model, node |-> NoNext]]

\* recognition.abort(): the session stops at once, its end event follows.
abortListening(s) ==
    IF s.ref.phase = "none" THEN s
    ELSE setIsListening(
            [s EXCEPT !.ref.phase = IF @ = "open" THEN "aborted" ELSE @], FALSE)

\* startListening of a render whose isListening was lis and isSupported was sup.
\* recognition.start() throws on an instance whose session has not ended yet;
\* the onstart handler is taken together with start().
startListening(s, lis, sup) ==
    IF ~sup \/ s.ref.phase = "none" \/ lis THEN s
    ELSE LET s1 == setTranscript([s EXCEPT !.finalRef = <<>>], <<>>)
         IN  IF s.ref.phase = "idle"
             THEN setIsListening([s1 EXCEPT !.ref.phase = "open", !.ref.node = s.node], TRUE)
             ELSE s1

-----------------------------------------------------------------------------
(* Intent resolver *)

\* optionMatches comparing the label as written, without lowering its case.
optionMatchesCaseSensitive(lowerTranscript, opt) ==
    \/ includes(lowerTranscript, opt.label)
    \/ \E k \in 1..Len(opt.keywords) : includes(lowerTranscript, toLowerCase(opt.keywords[k]))

optionMatches(lowerTranscript, opt) ==
    \/ includes(lowerTranscript, toLowerCase(opt.label))
    \/ \E k \in 1..Len(opt.keywords) : includes(lowerTranscript, toLowerCase(opt.keywords[k]))

\* The for loop of matchIntentLocally from index i on.
RECURSIVE matchLoop(_, _, _)
matchLoop(lowerTranscript, options, i) ==
    IF i >= Len(options) THEN null
    ELSE IF optionMatches(lowerTranscript, options[i + 1]) THEN i
    ELSE matchLoop(lowerTranscript, options, i + 1)

\* matchIntentLocally answering with the last option that matches.
RECURSIVE matchLoopBackwards(_, _, _)
matchLoopBackwards(lowerTranscript, options, i) ==
    IF i < 0 THEN null
    ELSE IF optionMatches(lowerTranscript, options[i + 1]) THEN i
    ELSE matchLoopBackwards(lowerTranscript, options, i - 1)

matchIntentLocallyLast(text, options) ==
    matchLoopBackwards(toLowerCase(text), options, Len(options) - 1)

matchIntentLocally(text, options) == matchLoop(toLowerCase(text), options, 0)

NoMatchRun == [pc |-> "idle", transcript |-> <<>>, result |-> null]

-----------------------------------------------------------------------------
(* constructNodeSpeech *)

\* A node as constructNodeSpeech reads it; <<>> is an absent or empty field.
SpeechNode(type, text, audioText, question, labels) ==
    [type |-> type, text |-> text, audioText |-> audioText, question |-> question,
     labels |-> labels]

\* The characters of a string are written as themselves when they are ASCII;
\* "stop", "excl", "ques", "comma" and "colon" are the full-width full stop,
\* exclamation mark, question mark, comma and colon, and "ni", "ke", "yi",
\* "shuo", "huo", "zhe" the characters of the words of the options prompt
\* ("you can say") and of the separator ("or").
Punctuation == {"stop", "excl", "ques", ".", "!", "?"}

ensurePunctuation(text, defaultPunct) ==
    LET trimmed == trim(text)
    IN  IF trimmed = <<>> THEN <<>>
        ELSE IF trimmed[Len(trimmed)] \notin Punctuation THEN trimmed \o defaultPunct
        ELSE trimmed

\* Array.prototype.join
RECURSIVE join(_, _)
join(strs, sep) ==
    IF strs = <<>> THEN <<>>
    ELSE IF Len(strs) = 1 THEN strs[1]
    ELSE strs[1] \o sep \o join(Tail(strs), sep)

OptionsPrompt == <<" ", "ni", "ke", "yi", "shuo", "colon">>
OptionsSeparator == <<"comma", "huo", "zhe", " ">>

NoSpeechRun ==
    [pc |-> "idle", node |-> SpeechNode("end", <<>>, <<>>, <<>>, <<>>), first |-> <<>>,
     second |-> <<>>]

\* constructNodeSpeech that never reads the options aloud.
constructNodeSpeechWithoutOptions(node) ==
    LET read == ensurePunctuation(IF node.audioText # <<>> THEN node.audioText ELSE node.text,
                                  <<"stop">>)
        asked == IF node.question # <<>> /\ ~includes(read, node.question)
                 THEN read \o <<" ">> \o node.question ELSE read
    IN  IF node.type = "choice" THEN trim(ensurePunctuation(asked, <<"ques">>)) ELSE trim(read)

constructNodeSpeech(node) ==
    LET read == ensurePunctuation(IF node.audioText # <<>> THEN node.audioText ELSE node.text,
                                  <<"stop">>)
        asked == IF node.question # <<>> /\ ~includes(read, node.question)
                 THEN read \o <<" ">> \o node.question ELSE read
        closed == ensurePunctuation(asked, <<"ques">>)
        listed == IF node.labels # <<>>
                  THEN closed \o OptionsPrompt \o join(node.labels, OptionsSeparator) \o <<"stop">>
                  ELSE closed
    IN  IF node.type = "choice" THEN trim(listed) ELSE trim(read)

\* A caller (the asset effect, speakCurrentNode) calls constructNodeSpeech on
\* the node.
callConstructNodeSpeech ==
    /\ speechRun.pc \in {"idle", "once"}
    /\ speechRun' =
          IF speechRun.pc = "idle"
          THEN [speechRun EXCEPT !.pc = "once", !.first = constructNodeSpeech(speechRun.node)]
          ELSE [speechRun EXCEPT !.pc = "twice", !.second = constructNodeSpeech(speechRun.node)]
    /\ UNCHANGED <<player, matchRun, analyzeRun, imageCache, retryRun, backgroundQueue,
                   audioCache, captureRun>>

-----------------------------------------------------------------------------
(* useSpeechRecognition: the hook alone, with its two timers *)

\* An instance of SpeechRecognition made by the effect. isL and trans are the
\* isListening and transcript of the render whose effect made it, as its
\* handlers see them; resultReceived is the property that onresult sets on it;
\* heard is what was recognized since its session started.
Instance(isL, trans) ==
    [phase |-> "idle", isL |-> isL, trans |-> trans, resultReceived |-> FALSE, heard |-> <<>>]

\* The hook before it is used: no instance, no timer (0).
NoCapture ==
    [isListening |-> FALSE, transcript |-> <<>>, finalTranscriptRef |-> <<>>,
     recognitionRef |-> 0, instances |-> <<>>, silenceTimerRef |-> 0, noSpeechTimerRef |-> 0,
     results |-> 0, ended |-> [at |-> 0, result |-> <<>>, heard |-> <<>>]]

\* What a result may carry.
CaptureTexts == {<<"a">>, <<"b">>}

\* The effect runs: the cleanup of the previous run clears both timers, and a
\* new instance replaces the one in recognitionRef, which is not stopped.
captureEffect(h) ==
    [h EXCEPT !.silenceTimerRef = 0, !.noSpeechTimerRef = 0,
              !.instances = Append(@, Instance(h.isListening, h.transcript)),
              !.recognitionRef = Len(h.instances) + 1]

\* The commit after a handler: the effect depends on transcript.
captureRender(old, new) == IF new.transcript # old.transcript THEN captureEffect(new) ELSE new

\* recognition.stop() and recognition.abort(): the end event follows.
stopSession(h, x) ==
    IF h.instances[x].phase \in {"starting", "open"}
    THEN [h EXCEPT !.instances[x].phase = "stopping"] ELSE h

captureMount ==
    /\ captureRun = NoCapture
    /\ captureRun' = captureEffect(captureRun)
    /\ UNCHANGED <<player, matchRun, analyzeRun, imageCache, speechRun, retryRun, backgroundQueue, audioCache>>

\* A new onEnd or onResult is passed to the hook.
capturePropsChange ==
    /\ captureRun.recognitionRef # 0
    /\ Len(captureRun.instances) < MaxInstances
    /\ captureRun' = captureEffect(captureRun)
    /\ UNCHANGED <<player, matchRun, analyzeRun, imageCache, speechRun, retryRun, backgroundQueue, audioCache>>

\* startListening(); start() throws on an instance whose session has not ended.
captureStartListening ==
    /\ captureRun.recognitionRef # 0 /\ ~captureRun.isListening
    /\ LET x == captureRun.recognitionRef
           h1 == [captureRun EXCEPT !.finalTranscriptRef = <<>>, !.transcript = <<>>]
           h2 == IF captureRun.instances[x].phase = "idle"
                 THEN [h1 EXCEPT !.instances[x].phase = "starting"] ELSE h1
       IN  /\ Len(captureRender(captureRun, h2).instances) <= MaxInstances
           /\ captureRun' = captureRender(captureRun, h2)
    /\ UNCHANGED <<player, matchRun, analyzeRun, imageCache, speechRun, retryRun, backgroundQueue, audioCache>>

\* recognition.onstart of instance x.
captureOnstart(x) ==
    /\ captureRun.instances[x].phase = "starting"
    /\ LET h1 == [captureRun EXCEPT !.isListening = TRUE, !.finalTranscriptRef = <<>>,
                                     !.transcript = <<>>, !.noSpeechTimerRef = x,
                                     !.instances[x].phase = "open",
                                     !.instances[x].heard = <<>>]
       IN  /\ Len(captureRender(captureRun, h1).instances) <= MaxInstances
           /\ captureRun' = captureRender(captureRun, h1)
    /\ UNCHANGED <<player, matchRun, analyzeRun, imageCache, speechRun, retryRun, backgroundQueue, audioCache>>

\* recognition.onresult of instance x with one result, interim or final.
captureOnresult(x, final, text) ==
    /\ captureRun.instances[x].phase = "open"
    /\ captureRun.results < MaxResults
    /\ LET h1 == [captureRun EXCEPT !.instances[x].resultReceived = TRUE,
                                     !.instances[x].heard = @ \o text,
                                     !.noSpeechTimerRef = 0,
                                     !.transcript = text,
                                     !.finalTranscriptRef = IF final THEN @ \o text ELSE @,
                                     !.silenceTimerRef = x,
                                     !.results = @ + 1]
       IN  /\ Len(captureRender(captureRun, h1).instances) <= MaxInstances
           /\ captureRun' = captureRender(captureRun, h1)
    /\ UNCHANGED <<player, matchRun, analyzeRun, imageCache, speechRun, retryRun, backgroundQueue, audioCache>>

\* The callback of noSpeechTimer set by the onstart of instance x, after 8000 ms.
noSpeechTimerFires ==
    /\ captureRun.noSpeechTimerRef # 0
    /\ LET x == captureRun.noSpeechTimerRef
           h1 == [captureRun EXCEPT !.noSpeechTimerRef = 0]
       IN  captureRun' =
              IF captureRun.finalTranscriptRef = <<>> /\ ~captureRun.instances[x].resultReceived
              THEN stopSession(h1, x) ELSE h1
    /\ UNCHANGED <<player, matchRun, analyzeRun, imageCache, speechRun, retryRun, backgroundQueue, audioCache>>

\* The callback of silenceTimer set by the onresult of instance x, after silenceDuration.
silenceTimerFires ==
    /\ captureRun.silenceTimerRef # 0
    /\ LET x == captureRun.silenceTimerRef
           h1 == [captureRun EXCEPT !.silenceTimerRef = 0]
       IN  captureRun' = IF captureRun.instances[x].isL THEN stopSession(h1, x) ELSE h1
    /\ UNCHANGED <<player, matchRun, analyzeRun, imageCache, speechRun, retryRun, backgroundQueue, audioCache>>

\* recognition.onend of instance x: onEnd(finalTranscriptRef.current || transcript).
captureOnend(x) ==
    LET h1 == [captureRun EXCEPT
                  !.isListening = FALSE, !.silenceTimerRef = 0, !.noSpeechTimerRef = 0,
                  !.instances[x].phase = "idle",
                  !.ended = [at |-> x,
                             result |-> IF captureRun.finalTranscriptRef # <<>>
                                        THEN captureRun.finalTranscriptRef
                                        ELSE captureRun.instances[x].trans,
                             heard |-> captureRun.instances[x].heard]]
    IN  /\ captureRun' = h1
        /\ UNCHANGED <<player, matchRun, analyzeRun, imageCache, speechRun, retryRun, backgroundQueue, audioCache>>

\* The recognizer ends the open session of x by itself.
captureEnds(x) == captureRun.instances[x].phase = "open" /\ captureOnend(x)

\* The end event that follows stop(), abort() or an error.
captureEndsStopped(x) == captureRun.instances[x].phase = "stopping" /\ captureOnend(x)

\* recognition.onerror of instance x; the end event follows.
captureOnerror(x) ==
    /\ captureRun.instances[x].phase = "open"
    /\ captureRun' = [captureRun EXCEPT !.isListening = FALSE, !.instances[x].phase = "stopping"]
    /\ UNCHANGED <<player, matchRun, analyzeRun, imageCache, speechRun, retryRun, backgroundQueue, audioCache>>

captureStopListening ==
    /\ captureRun.recognitionRef # 0
    /\ captureRun.instances[captureRun.recognitionRef].phase \in {"starting", "open"}
    /\ captureRun' = stopSession(captureRun, captureRun.recognitionRef)
    /\ UNCHANGED <<player, matchRun, analyzeRun, imageCache, speechRun, retryRun, backgroundQueue, audioCache>>

captureAbortListening ==
    /\ captureRun.recognitionRef # 0
    /\ captureRun.isListening \/ captureRun.silenceTimerRef # 0 \/ captureRun.noSpeechTimerRef # 0
          \/ captureRun.instances[captureRun.recognitionRef].phase \in {"starting", "open"}
    /\ captureRun' =
          [stopSession(captureRun, captureRun.recognitionRef)
              EXCEPT !.isListening = FALSE, !.silenceTimerRef = 0, !.noSpeechTimerRef = 0]
    /\ UNCHANGED <<player, matchRun, analyzeRun, imageCache, speechRun, retryRun, backgroundQueue, audioCache>>

-----------------------------------------------------------------------------
(* analyzeChildInput and extractJSON *)

\* A response text is a sequence of parts: "p" is prose without braces or
\* fences, "fence" a code fence of three backquotes (with or without "json"), "{" and "}" the
\* braces, "null" the JSON text null, and the members of an object:
\* "sel" is "action":"SELECT_OPTION","selectedOptionIndex":0,
\* "ask" is "action":"ASK_CLARIFICATION","replyText":"...",
\* "bad" is "action":"OTHER".
Members == {"sel", "ask", "bad"}
TextParts == {"p", "fence", "{", "}", "null"} \cup Members

\* String.indexOf and String.lastIndexOf, counting from 1; 0 when absent.
indexOf(text, part) ==
    IF \E i \in 1..Len(text) : text[i] = part
    THEN CHOOSE i \in 1..Len(text) : text[i] = part /\ \A j \in 1..(i - 1) : text[j] # part
    ELSE 0

lastIndexOf(text, part) ==
    IF \E i \in 1..Len(text) : text[i] = part
    THEN CHOOSE i \in 1..Len(text) :
            text[i] = part /\ \A j \in (i + 1)..Len(text) : text[j] # part
    ELSE 0

\* text.match(jsonBlockRegex): what stands between the first fence and the
\* next one, when there are two.
fenced(text) ==
    LET open == indexOf(text, "fence")
        rest == SubSeq(text, open + 1, Len(text))
        close == indexOf(rest, "fence")
    IN  IF open > 0 /\ close > 0 THEN SubSeq(rest, 1, close - 1) ELSE text

\* text.substring(firstBrace, lastBrace + 1); substring swaps its arguments
\* when the first is the larger.
braced(text) ==
    LET firstBrace == indexOf(text, "{")
        lastBrace == lastIndexOf(text, "}")
    IN  IF firstBrace > 0 /\ lastBrace > 0
        THEN IF firstBrace <= lastBrace + 1
             THEN SubSeq(text, firstBrace, lastBrace)
             ELSE SubSeq(text, lastBrace + 1, firstBrace - 1)
        ELSE text

actionOf(member) ==
    IF member = "sel" THEN "SELECT_OPTION"
    ELSE IF member = "ask" THEN "ASK_CLARIFICATION" ELSE "OTHER"

\* A value as the caller sees it: thrown instead of returned, null, or an
\* object with its action ("undefined" when it has none).
Value(threw, isNull, action) == [threw |-> threw, isNull |-> isNull, action |-> action]

\* JSON.parse: null, an object of members (the last action wins), or a
\* SyntaxError.
JSONparse(text) ==
    IF text = <<"null">> THEN Value(FALSE, TRUE, "undefined")
    ELSE IF /\ Len(text) >= 2 /\ text[1] = "{" /\ text[Len(text)] = "}"
            /\ \A i \in 2..(Len(text) - 1) : text[i] \in Members
    THEN Value(FALSE, FALSE,
               IF Len(text) = 2 THEN "undefined" ELSE actionOf(text[Len(text) - 1]))
    ELSE Value(TRUE, FALSE, "undefined")

extractJSON(text) == JSONparse(braced(fenced(text)))

\* The outcome of withRetry(generateContent): it throws, or it returns a
\* response whose text is empty (or missing) or has parts.
Outcome(throws, text) == [throws |-> throws, text |-> text]

NoAnalyzeRun == [pc |-> "idle", outcome |-> Outcome(FALSE, <<>>),
                 result |-> Value(FALSE, FALSE, "undefined")]

\* What analyzeChildInput returns (or throws) for an outcome of its remote call.
analyzeResult(outcome) ==
    IF outcome.throws THEN Value(FALSE, FALSE, "UNKNOWN")
    ELSE IF outcome.text # <<>>
    THEN LET parsed == extractJSON(outcome.text)
         IN  IF parsed.threw THEN Value(FALSE, FALSE, "UNKNOWN") ELSE parsed
    ELSE Value(FALSE, FALSE, "UNKNOWN")

analyzeChildInput ==
    /\ analyzeRun.pc = "called"
    /\ analyzeRun' = [analyzeRun EXCEPT !.pc = "settled",
                                         !.result = analyzeResult(analyzeRun.outcome)]
    /\ UNCHANGED <<player, retryRun, backgroundQueue, audioCache, matchRun, imageCache,
                   speechRun, captureRun>>

-----------------------------------------------------------------------------
(* StoryPlayer *)

\* The cleanup of the main flow effect, run when the player is unmounted.
Unmount(s) ==
    IF s.mounted THEN [abortListening(stopAudio(s)) EXCEPT !.mounted = FALSE] ELSE s

\* props.onComplete = App.handleStoryComplete: setIsPlaying(false) unmounts the player.
onComplete(s) == Unmount([s EXCEPT !.completes = @ + 1])

\* props.onExit: setIsPlaying(false).
onExit(s) == Unmount(s)

\* safeSetNode without the check that the target node exists.
safeSetNodeUnchecked(s, nextId, histNode) ==
    IF s.mounted
    THEN [s EXCEPT !.history = Append(@, histNode), !.node = nextId, !.ist = "reading"]
    ELSE s

\* safeSetNode of a render whose currentNodeId was histNode.
safeSetNode(s, nextId, histNode) ==
    IF nextId \notin DOMAIN story THEN onComplete(s)
    ELSE IF s.mounted
         THEN [s EXCEPT !.history = Append(@, histNode), !.node = nextId, !.ist = "reading"]
         ELSE s

\* props.onChoiceMade = App.handleChoiceMade.
onChoiceMade(s, selection, type, step, text, speechHistory) ==
    [s EXCEPT !.choices = Append(@, [step |-> step, selection |-> selection, type |-> type,
                                     transcript |-> text, speechHistory |-> speechHistory])]

\* handleChoice of a render whose currentNodeId was histNode and model was model.
handleChoice(s, index, text, histNode, model) ==
    LET currentRefNode == story[s.node]
    IN  IF currentRefNode.options = <<>> THEN s
        ELSE IF index \notin 0..(Len(currentRefNode.options) - 1) THEN s
        ELSE playTextToSpeech(setInteractionState(s, "guiding"),
                              Request("ack", s.node, FALSE, FALSE, index, text, histNode),
                              model)

speakSystemPrompt(s, activeNodeId, model) ==
    playTextToSpeech(s, Request("prompt", activeNodeId, FALSE, FALSE, null, <<>>, activeNodeId),
                     model)

\* handleSpeechEnd as memoized by a render whose currentNodeId was capNode and
\* model was model, up to the await of analyzeChildInput.
handleSpeechEnd(s, finalText, capNode, model) ==
    LET activeNodeId == s.node
        activeNode == story[activeNodeId]
        cleanText == trim(finalText)
    IN  IF activeNode.options = <<>> \/ activeNode.type = "linear" THEN s
        ELSE IF cleanText = <<>>
        THEN IF s.retry < 2
             THEN speakSystemPrompt([setInteractionState(s, "guiding") EXCEPT !.retry = @ + 1],
                                    activeNodeId, model)
             ELSE setInteractionState(s, "waiting")
        ELSE LET s1 == setInteractionState(
                           [s EXCEPT !.speechHist = Append(@, cleanText)], "processing")
                 localMatchIndex == matchIntentLocally(cleanText, activeNode.options)
             IN  IF localMatchIndex # null
                 THEN handleChoice(s1, localMatchIndex, cleanText, capNode, model)
                 ELSE [s1 EXCEPT !.calls = @ \cup {[node |-> activeNodeId, text |-> cleanText,
                                                    capNode |-> capNode, model |-> model,
                                                    left |-> FALSE]}]

\* speakCurrentNode of a render whose isMicSupported was sup and isListening was lis.
speakCurrentNode(s, sup, lis) ==
    playTextToSpeech(stopAudio(abortListening(setInteractionState(s, "reading"))),
                     Request("node", s.node, sup, lis, null, <<>>, s.node),
                     s.model)

\* History: whatever is pending when the node changes was scheduled in a visit
\* that has ended.
Leave(s) ==
    [s EXCEPT !.reqs = {[r EXCEPT !.left = TRUE] : r \in @},
              !.timers = {[t EXCEPT !.left = TRUE] : t \in @},
              !.calls = {[c EXCEPT !.left = TRUE] : c \in @}]

\* The commit that follows a handler: the effects whose dependencies changed.
\* lisR is the isListening state of the render.
RenderWith(old, new, lisR) ==
    IF ~new.mounted THEN new
    ELSE LET nodeCh == new.node # old.node
             modelCh == new.model # old.model
             transCh == new.trans # old.trans
             c0 == IF nodeCh THEN Leave(new) ELSE new
             c1 == IF nodeCh \/ modelCh THEN abortListening(stopAudio(c0)) ELSE c0
             c2 == IF nodeCh THEN [c1 EXCEPT !.speechHist = <<>>, !.retry = 0] ELSE c1
             c3 == IF modelCh THEN [c2 EXCEPT !.seNode = new.node] ELSE c2
             c4 == IF (transCh \/ modelCh) /\ c3.ref.phase # "none"
                   THEN newInstance(c3) ELSE c3
         IN  IF nodeCh \/ modelCh THEN speakCurrentNode(c4, micAvailable, lisR) ELSE c4

Render(old, new) == RenderWith(old, new, new.isL)

\* The commit after a handler that called startListening: onstart (which sets
\* isListening) comes after the render caused by setTranscript('').
RenderStart(old, new) == RenderWith(old, new, old.isL)

-----------------------------------------------------------------------------
(* The state after the player is mounted: the first render has isSupported *)
(* false, and the main flow effect runs speakCurrentNode of that render.   *)

\* model is story.ttsModel, or the default model when the story names none.
MountWith(mic, model) ==
    speakCurrentNode(
        [mounted |-> TRUE, node |-> "start", ist |-> "reading", history |-> <<>>,
         model |-> model, switcher |-> FALSE, speechHist |-> <<>>, retry |-> 0,
         seNode |-> "start", reqId |-> 0, reqs |-> {}, timers |-> {}, pendC |-> 0,
         completes |-> 0, choices |-> <<>>, calls |-> {}, isL |-> FALSE, trans |-> <<>>,
         finalRef |-> <<>>,
         ref |-> IF mic THEN [NoInstance EXCEPT !.phase = "idle", !.model = model]
                 ELSE NoInstance,
         orphans |-> {}],
        FALSE, FALSE)

Mount(mic) == MountWith(mic, storyTtsModel)

\* The player starts in the state s.
PlayerStarts(s) ==
    /\ mounted = s.mounted /\ currentNodeId = s.node /\ interactionState = s.ist
    /\ history = s.history /\ currentTtsModel = s.model
    /\ showModelSwitcher = s.switcher /\ speechHistoryRef = s.speechHist
    /\ retryCountRef = s.retry /\ speechEndNode = s.seNode
    /\ activeRequestId = s.reqId /\ requests = s.reqs /\ timers = s.timers
    /\ pendingComplete = s.pendC /\ completes = s.completes /\ choices = s.choices
    /\ calls = s.calls /\ isListening = s.isL /\ transcript = s.trans
    /\ finalTranscriptRef = s.finalRef /\ recognitionRef = s.ref
    /\ orphans = s.orphans
    /\ events = 0
    /\ last = Last("mount", FALSE, FALSE)

PlayerInit(stories, mics, synths) ==
    /\ story \in stories
    /\ micAvailable \in mics
    /\ hasSynth \in synths
    /\ PlayerStarts(Mount(micAvailable))

\* The services at rest.
ServicesIdle ==
    /\ retryRun = RetryIdle
    /\ backgroundQueue = NewRateLimiter
    /\ audioCache = EmptyAudioCache
    /\ analyzeRun = NoAnalyzeRun
    /\ imageCache = NoImages
    /\ speechRun = NoSpeechRun
    /\ captureRun = NoCapture

InitWith(stories, mics, synths) ==
    /\ PlayerInit(stories, mics, synths)
    /\ ServicesIdle
    /\ matchRun = NoMatchRun

Init == InitWith(Stories, BOOLEAN, BOOLEAN)

-----------------------------------------------------------------------------
(* Completion callbacks of a narration request *)

Timer(type, node, lis, sup) ==
    [type |-> type, node |-> node, lis |-> lis, sup |-> sup, left |-> FALSE]

\* nodeNarrationEnd that takes speech capture to be supported.
nodeNarrationEndAssumeMic(s, r) ==
    LET currentNode == story[r.node]
    IN  IF s.node # r.node THEN s
        ELSE IF currentNode.type = "end" THEN [s EXCEPT !.pendC = @ + 1]
        ELSE IF currentNode.type = "linear"
        THEN IF currentNode.next # NoNext /\ currentNode.next \in DOMAIN story
             THEN [s EXCEPT !.timers = @ \cup {Timer("advance", r.node, FALSE, FALSE)}]
             ELSE [s EXCEPT !.pendC = @ + 1]
        ELSE [setInteractionState(s, "listening")
                 EXCEPT !.timers = @ \cup {Timer("listen", r.node, r.lis, r.mic)}]

\* nodeNarrationEnd whose end branch schedules nothing.
nodeNarrationEndNoComplete(s, r) ==
    LET currentNode == story[r.node]
    IN  IF s.node # r.node \/ currentNode.type = "end" THEN s
        ELSE IF currentNode.type = "linear"
        THEN IF currentNode.next # NoNext /\ currentNode.next \in DOMAIN story
             THEN [s EXCEPT !.timers = @ \cup {Timer("advance", r.node, FALSE, FALSE)}]
             ELSE [s EXCEPT !.pendC = @ + 1]
        ELSE IF r.mic
             THEN [setInteractionState(s, "listening")
                      EXCEPT !.timers = @ \cup {Timer("listen", r.node, r.lis, r.mic)}]
             ELSE setInteractionState(s, "waiting")

\* onEnd of speakCurrentNode's request r.
nodeNarrationEnd(s, r) ==
    LET currentNode == story[r.node]
    IN  IF s.node # r.node THEN s
        ELSE IF currentNode.type = "end" THEN [s EXCEPT !.pendC = @ + 1]
        ELSE IF currentNode.type = "linear"
        THEN IF currentNode.next # NoNext /\ currentNode.next \in DOMAIN story
             THEN [s EXCEPT !.timers = @ \cup {Timer("advance", r.node, FALSE, FALSE)}]
             ELSE [s EXCEPT !.pendC = @ + 1]
        ELSE IF r.mic
             THEN [setInteractionState(s, "listening")
                      EXCEPT !.timers = @ \cup {Timer("listen", r.node, r.lis, r.mic)}]
             ELSE setInteractionState(s, "waiting")

\* onEnd of handleChoice's request r.
ackEnd(s, r) ==
    LET choice == story[r.node].options[r.opt + 1]
    IN  safeSetNode(onChoiceMade(s, choice.label, choice.type, s.node, r.text, s.speechHist),
                    choice.next, r.histNode)

\* The completion callback handleSpeechEnd gives speakSystemPrompt.
promptEnd(s, r) ==
    IF s.node = r.node
    THEN startListening(setInteractionState(s, "listening"), s.isL, micAvailable)
    ELSE s

onEnd(s, r) ==
    IF r.kind = "node" THEN nodeNarrationEnd(s, r)
    ELSE IF r.kind = "ack" THEN ackEnd(s, r)
    ELSE promptEnd(s, r)

\* A catch block in which every caller handles quota exhaustion as speakCurrentNode does.
onSynthErrorAnyQuota(s, r, quota) ==
    IF quota
    THEN setShowModelSwitcher([s EXCEPT !.reqs = @ \ {r}], TRUE)
    ELSE playBrowserTTS(s, r)

\* The catch block of playTextToSpeech for the request r that is still current.
\* Only speakCurrentNode passes an onError.
onSynthError(s, r, quota) ==
    IF r.kind = "node" /\ quota
    THEN setShowModelSwitcher([s EXCEPT !.reqs = @ \ {r}], TRUE)
    ELSE playBrowserTTS(s, r)

\* classified without the check that the node of the call is still current.
classifiedUnguarded(s, c, outcome) ==
    IF outcome # null THEN handleChoice(s, outcome, c.text, c.capNode, c.model)
    ELSE speakSystemPrompt([setInteractionState(s, "guiding") EXCEPT !.retry = @ + 1],
                           c.node, c.model)

\* The continuation of handleSpeechEnd after analyzeChildInput resolved.
\* outcome is the selected option index, or null for any other result.
classified(s, c, outcome) ==
    IF s.node # c.node THEN s
    ELSE IF outcome # null THEN handleChoice(s, outcome, c.text, c.capNode, c.model)
    ELSE speakSystemPrompt([setInteractionState(s, "guiding") EXCEPT !.retry = @ + 1],
                           c.node, c.model)

-----------------------------------------------------------------------------
(* Actions: remote synthesis and playback *)

SynthOk(r) ==
    /\ r.phase = "synth"
    /\ Apply(IF r.id = activeRequestId
                THEN [Cur EXCEPT !.reqs = (@ \ {r}) \cup {[r EXCEPT !.phase = "playing"]}]
                ELSE [Cur EXCEPT !.reqs = @ \ {r}],
             Last("synthOk", r.id # activeRequestId, r.left))

SynthFail(r, quota) ==
    /\ r.phase = "synth"
    /\ Apply(IF r.id = activeRequestId
                THEN onSynthError(Cur, r, quota)
                ELSE [Cur EXCEPT !.reqs = @ \ {r}],
             Last(IF quota THEN "synthQuota" ELSE "synthError", r.id # activeRequestId,
                  r.left))

\* source.onended / utterance.onend / utterance.onerror
PlaybackEnd(r) ==
    /\ r.phase \in {"playing", "stopped"}
    /\ LET s == [Cur EXCEPT !.reqs = @ \ {r}]
       IN  Apply(IF r.id = activeRequestId THEN RenderStart(Cur, onEnd(s, r)) ELSE s,
                 Last(r.kind \o "End", r.id # activeRequestId, r.left))

\* setTimeout(onEnd, 1000) of playBrowserTTS without speechSynthesis
FallbackTimer(r) ==
    /\ r.phase = "timer"
    /\ Apply(RenderStart(Cur, onEnd([Cur EXCEPT !.reqs = @ \ {r}], r)),
             Last(r.kind \o "End", r.id # activeRequestId, r.left))

AdvanceTimer(t) ==
    /\ t.type = "advance"
    /\ LET s == [Cur EXCEPT !.timers = @ \ {t}]
       IN  Apply(IF s.node = t.node
                    THEN Render(Cur, safeSetNode(s, story[t.node].next, t.node))
                    ELSE s,
                 Last("advanceTimer", currentNodeId # t.node, t.left))

ListenTimer(t) ==
    /\ t.type = "listen"
    /\ LET s == [Cur EXCEPT !.timers = @ \ {t}]
       IN  Apply(IF s.node = t.node
                    THEN RenderStart(Cur, startListening(s, t.lis, t.sup))
                    ELSE s,
                 Last("listenTimer", currentNodeId # t.node, t.left))

CompleteTimer ==
    /\ pendingComplete > 0
    /\ Apply(onComplete([Cur EXCEPT !.pendC = @ - 1]),
             Last("complete", ~mounted, FALSE))

-----------------------------------------------------------------------------
(* Actions: the user *)

\* The model switcher is a full-screen modal: nothing under it can be clicked.
CanClick == mounted /\ ~showModelSwitcher

handleBack ==
    /\ CanClick
    /\ history # <<>>
    /\ LET prevId == history[Len(history)]
           s == [Cur EXCEPT !.history = SubSeq(@, 1, Len(@) - 1), !.node = prevId,
                            !.ist = "reading"]
       IN  Apply(Render(Cur, abortListening(stopAudio(s))),
                 Last("back", FALSE, FALSE))

\* The Next button of a linear node.
NextButton ==
    /\ CanClick
    /\ story[currentNodeId].type = "linear"
    /\ LET currentNode == story[currentNodeId]
           s == stopAudio(Cur)
       IN  Apply(Render(Cur, IF currentNode.next # NoNext
                                THEN safeSetNode(s, currentNode.next, currentNodeId)
                                ELSE onComplete(s)),
                 Last("next", FALSE, FALSE))

handleReplay ==
    /\ CanClick
    /\ Apply(speakCurrentNode(Cur, micAvailable, isListening),
             Last("replay", FALSE, FALSE))

\* An option bubble is tapped; the bubbles take clicks in these three states.
TapOption(index) ==
    /\ CanClick
    /\ story[currentNodeId].type = "choice"
    /\ interactionState \in {"listening", "waiting", "guiding"}
    /\ index \in 0..(Len(story[currentNodeId].options) - 1)
    /\ Apply(handleChoice(Cur, index, <<>>, currentNodeId, currentTtsModel),
             Last("tap", FALSE, FALSE))

\* The orb is tapped in the waiting state.
OrbClick ==
    /\ CanClick
    /\ interactionState = "waiting"
    /\ Apply(RenderStart(Cur, startListening(Cur, isListening, micAvailable)),
             Last("orb", FALSE, FALSE))

ExitButton ==
    /\ CanClick
    /\ Apply(onExit(abortListening(stopAudio(Cur))), Last("exit", FALSE, FALSE))

handleModelSwitch(newModelId) ==
    /\ mounted
    /\ showModelSwitcher
    /\ Apply(Render(Cur, [Cur EXCEPT !.model = newModelId, !.switcher = FALSE]),
             Last("modelSwitch", newModelId = currentTtsModel, FALSE))

-----------------------------------------------------------------------------
(* Actions: the recognizer and the classifier *)

OpenSessions == {x \in orphans \cup {recognitionRef} : x.phase = "open"}
LiveSessions ==
    {x \in orphans \cup {recognitionRef} : x.phase \in {"open", "ending", "aborted"}}

\* The session of instance x moves to phase p; an orphan whose session ended is gone.
withSession(s, x, p) ==
    IF x = s.ref
    THEN [s EXCEPT !.ref.phase = p, !.ref.node = IF p = "idle" THEN NoNext ELSE @]
    ELSE [s EXCEPT !.orphans = (@ \ {x}) \cup (IF p = "idle" THEN {} ELSE {[x EXCEPT !.phase = p]})]

\* recognition.onresult of instance x with one result, interim or final.
onresult(s, x, final, text) ==
    LET s1 == setTranscript(s, text)
    IN  IF final THEN [s1 EXCEPT !.finalRef = @ \o text] ELSE s1

\* recognition.onend of instance x.
endResult(s, x) == IF s.finalRef # <<>> THEN s.finalRef ELSE x.trans

onend(s, x) ==
    handleSpeechEnd(setIsListening(withSession(s, x, "idle"), FALSE),
                    endResult(s, x), x.capNode, x.model)

\* recognition.onerror of instance x; the end event follows.
onerror(s, x) == setIsListening(withSession(s, x, "ending"), FALSE)

RecognitionResult(x, final, text) ==
    /\ x.phase = "open"
    /\ final \/ text \in InterimUtterances
    /\ Apply(Render(Cur, onresult(Cur, x, final, text)),
             Last(IF final THEN "finalResult" ELSE "interimResult", x # recognitionRef,
                  x.node # currentNodeId))

RecognitionEnd(x) ==
    /\ x.phase \in {"open", "ending", "aborted"}
    /\ Apply(Render(Cur, onend(Cur, x)),
             [Last("speechEnd", x.node # currentNodeId, FALSE)
                 EXCEPT !.how = x.phase, !.arg = endResult(Cur, x)])

RecognitionError(x) ==
    /\ x.phase = "open"
    /\ Apply(onerror(Cur, x), Last("speechError", x # recognitionRef, x.node # currentNodeId))

\* analyzeChildInput resolves: SELECT_OPTION with an index (2 is out of range),
\* or anything else (ASK_CLARIFICATION, UNKNOWN).
Outcomes == {0, 1, 2, null}

ClassifyResolve(c, outcome) ==
    /\ Apply(classified([Cur EXCEPT !.calls = @ \ {c}], c, outcome),
             [Last("classified", currentNodeId # c.node, c.left)
                 EXCEPT !.how = IF currentNodeId # c.node THEN ""
                                ELSE IF outcome = null THEN "unknown" ELSE "selected"])

-----------------------------------------------------------------------------

Next ==
    \/ \E r \in requests : SynthOk(r)
    \/ \E r \in requests, quota \in BOOLEAN : SynthFail(r, quota)
    \/ \E r \in requests : PlaybackEnd(r)
    \/ \E r \in requests : FallbackTimer(r)
    \/ \E t \in timers : AdvanceTimer(t)
    \/ \E t \in timers : ListenTimer(t)
    \/ CompleteTimer
    \/ handleBack
    \/ NextButton
    \/ handleReplay
    \/ \E index \in 0..1 : TapOption(index)
    \/ OrbClick
    \/ ExitButton
    \/ \E m \in 1..Len(AVAILABLE_TTS_MODELS) : handleModelSwitch(AVAILABLE_TTS_MODELS[m])
    \/ \E x \in OpenSessions, final \in BOOLEAN, text \in Utterances :
          RecognitionResult(x, final, text)
    \/ \E x \in LiveSessions : RecognitionEnd(x)
    \/ \E x \in OpenSessions : RecognitionError(x)
    \/ \E c \in calls, outcome \in Outcomes : ClassifyResolve(c, outcome)

Spec == Init /\ [][Next]_vars

\* A callback given to setTimeout is run by the event loop: the timer of
\* setTimeout(onComplete, ...) cannot be cancelled and fires.
LiveSpec == Init /\ [][Next]_vars /\ WF_vars(CompleteTimer)

-----------------------------------------------------------------------------
(* The end-to-end scenario: the story of the specification is played with    *)
(* speech capture and without any user gesture.                              *)

E2EInit == InitWith({StoryEndToEnd}, {TRUE}, BOOLEAN)

\* A remote synthesis call settles.
SynthSettles == \E r \in requests : SynthOk(r) \/ \E quota \in BOOLEAN : SynthFail(r, quota)

E2ENext ==
    \/ SynthSettles
    \/ \E r \in requests : PlaybackEnd(r)
    \/ \E r \in requests : FallbackTimer(r)
    \/ \E t \in timers : AdvanceTimer(t)
    \/ \E t \in timers : ListenTimer(t)
    \/ CompleteTimer
    \/ \E x \in OpenSessions, final \in BOOLEAN, text \in E2EUtterances :
          RecognitionResult(x, final, text)
    \/ \E x \in LiveSessions : RecognitionEnd(x)
    \/ \E x \in OpenSessions : RecognitionError(x)
    \/ \E c \in calls, outcome \in Outcomes : ClassifyResolve(c, outcome)

\* A remote call settles, a sound that plays ends, and a timer fires.
E2ESpec ==
    /\ E2EInit /\ [][E2ENext]_vars
    /\ WF_vars(SynthSettles)
    /\ WF_vars(\E r \in requests : PlaybackEnd(r))
    /\ WF_vars(\E r \in requests : FallbackTimer(r))
    /\ WF_vars(\E t \in timers : AdvanceTimer(t))
    /\ WF_vars(\E t \in timers : ListenTimer(t))
    /\ WF_vars(CompleteTimer)

-----------------------------------------------------------------------------
(* One call of withRetry, the player at rest. An attempt settles and a delay *)
(* elapses.                                                                  *)

RetryInit == InitWith({StoryDangling}, {FALSE}, {FALSE})

RetryNext ==
    \/ \E key \in BOOLEAN : withRetryCall(key)
    \/ getAIFails
    \/ operationOk
    \/ \E error \in RemoteErrors : operationFails(error)
    \/ delayElapsed

RetrySpec ==
    RetryInit /\ [][RetryNext]_vars /\ WF_vars(attemptSettles) /\ WF_vars(delayElapsed)

-----------------------------------------------------------------------------
(* The synthesis call of the first narration run by withRetry: the promise   *)
(* of withRetry settles into playTextToSpeech.                               *)

\* The onError callback of speakCurrentNode: error instanceof QuotaExhaustedError.
isQuotaExhausted(error) == error = QuotaExhaustedError

\* The current node narration whose synthesis call is in flight.
NarrationCalls ==
    {r \in requests : r.kind = "node" /\ r.phase = "synth" /\ r.id = activeRequestId}

\* withRetry has returned the response: the audio is decoded and started.
narrationResolves(r) ==
    /\ retryRun.pc = "done" /\ retryRun.result.ok
    /\ Assign([Cur EXCEPT !.reqs = (@ \ {r}) \cup {[r EXCEPT !.phase = "playing"]}],
              Last("synthOk", FALSE, r.left))
    /\ retryRun' = [retryRun EXCEPT !.pc = "settled"]
    /\ UNCHANGED <<backgroundQueue, audioCache, matchRun, analyzeRun, imageCache, speechRun, captureRun>>

\* withRetry has thrown: the catch block of playTextToSpeech.
narrationRejects(r) ==
    /\ retryRun.pc = "done" /\ ~retryRun.result.ok
    /\ LET quota == isQuotaExhausted(retryRun.result.error)
       IN  Assign(onSynthError(Cur, r, quota),
                  Last(IF quota THEN "synthQuota" ELSE "synthError", FALSE, r.left))
    /\ retryRun' = [retryRun EXCEPT !.pc = "settled"]
    /\ UNCHANGED <<backgroundQueue, audioCache, matchRun, analyzeRun, imageCache, speechRun, captureRun>>

NarrationInit == InitWith(Stories, {FALSE}, BOOLEAN)

NarrationNext ==
    \/ \E key \in BOOLEAN : withRetryCall(key)
    \/ getAIFails
    \/ operationOk
    \/ \E error \in RemoteErrors : operationFails(error)
    \/ delayElapsed
    \/ \E r \in NarrationCalls : narrationResolves(r)
    \/ \E r \in NarrationCalls : narrationRejects(r)

NarrationSpec == NarrationInit /\ [][NarrationNext]_vars

-----------------------------------------------------------------------------
(* The capture hook alone, the player at rest. A timer that is set fires,    *)
(* the start event follows start(), and the end event follows stop(),        *)
(* abort() and an error; the recognizer need not end a session by itself.    *)

CaptureInit == InitWith({StoryDangling}, {FALSE}, {FALSE})

CaptureSessions == 1..Len(captureRun.instances)

CaptureNext ==
    \/ captureMount
    \/ capturePropsChange
    \/ captureStartListening
    \/ \E x \in CaptureSessions : captureOnstart(x)
    \/ \E x \in CaptureSessions, final \in BOOLEAN, text \in CaptureTexts :
          captureOnresult(x, final, text)
    \/ noSpeechTimerFires
    \/ silenceTimerFires
    \/ \E x \in CaptureSessions : captureEnds(x)
    \/ \E x \in CaptureSessions : captureEndsStopped(x)
    \/ \E x \in CaptureSessions : captureOnerror(x)
    \/ captureStopListening
    \/ captureAbortListening

CaptureSpec ==
    /\ CaptureInit /\ [][CaptureNext]_vars
    /\ WF_vars(noSpeechTimerFires)
    /\ WF_vars(silenceTimerFires)
    /\ WF_vars(\E x \in CaptureSessions : captureOnstart(x))
    /\ WF_vars(\E x \in CaptureSessions : captureEndsStopped(x))

-----------------------------------------------------------------------------
(* The background rate limiter under add() calls at any time, the player at  *)
(* rest.                                                                     *)

LimiterInit == InitWith({StoryDangling}, {FALSE}, {FALSE})

LimiterNext ==
    \/ add
    \/ \E task \in backgroundQueue.inFlight, ok \in BOOLEAN : taskSettles(task, ok)
    \/ gapElapsed
    \/ timePasses

LimiterSpec == LimiterInit /\ [][LimiterNext]_vars

\* Every task terminates, time passes and the delay timer fires.
LimiterLiveSpec ==
    /\ LimiterInit /\ [][LimiterNext]_vars
    /\ WF_vars(\E task \in backgroundQueue.inFlight, ok \in BOOLEAN : taskSettles(task, ok))
    /\ WF_vars(gapElapsed)
    /\ WF_vars(timePasses)

-----------------------------------------------------------------------------
(* Narration and prefetch requests for one cache key, in any interleaving,   *)
(* the player at rest.                                                       *)

CacheInit == InitWith({StoryDangling}, {FALSE}, {FALSE})

CacheNext ==
    \/ playStart
    \/ prefetchAudio
    \/ \E p \in audioCache.procs : playCtx(p)
    \/ \E p \in audioCache.procs : playMemSettles(p)
    \/ \E p \in audioCache.procs : playDb(p)
    \/ \E p \in audioCache.procs : playFetchOk(p)
    \/ \E p \in audioCache.procs : playFetchFail(p)
    \/ \E p \in audioCache.procs : playDecoded(p)
    \/ \E p \in audioCache.procs : prefetchDb(p)
    \/ \E p \in audioCache.procs : prefetchTask(p)
    \/ \E p \in audioCache.procs : prefetchDb2(p)
    \/ \E p \in audioCache.procs : prefetchFetchOk(p)
    \/ \E p \in audioCache.procs : prefetchFetchFail(p)
    \/ \E p \in audioCache.procs : prefetchDecoded(p)

CacheSpec == CacheInit /\ [][CacheNext]_vars

-----------------------------------------------------------------------------
(* matchIntentLocally on bounded transcripts and option lists: the player    *)
(* opens on a choice node with the options and narrates it, the orb is       *)
(* tapped, and the capture session ends with the transcript.                 *)

MatchLabels == {<<"a">>, <<"A", "b">>, <<"B">>, <<>>}
MatchKeywords == {<<>>, << <<"X">> >>, << <<"b">>, <<"a", "a">> >>}
MatchOptions == {Option(l, k, "fin", "brave") : l \in MatchLabels, k \in MatchKeywords}
MatchOptionLists ==
    {<<o>> : o \in MatchOptions} \cup {<<o1, o2>> : o1 \in MatchOptions, o2 \in MatchOptions}
MatchStories == {("start" :> Choice(os)) @@ ("fin" :> End) : os \in MatchOptionLists}
MatchChars == {"a", "A", "b", "x"}
MatchTranscripts ==
    {<<>>} \cup {<<c>> : c \in MatchChars} \cup {<<c, d>> : c \in MatchChars, d \in MatchChars}

MatchInit ==
    /\ PlayerInit(MatchStories, {TRUE}, {TRUE})
    /\ ServicesIdle
    /\ matchRun \in {[NoMatchRun EXCEPT !.pc = "input", !.transcript = tr] :
                        tr \in MatchTranscripts}

\* recognition.onend of the open session x, whose final results add up to the
\* transcript of the run.
hear(x) ==
    /\ matchRun.pc = "input" /\ x.phase = "open"
    /\ LET s == [Cur EXCEPT !.finalRef = matchRun.transcript]
       IN  Assign(Render(Cur, onend(s, x)),
                  [Last("speechEnd", x.node # currentNodeId, FALSE)
                      EXCEPT !.how = x.phase, !.arg = endResult(s, x)])
    /\ matchRun' =
          [matchRun EXCEPT !.pc = "done",
                           !.result = matchIntentLocally(matchRun.transcript,
                                                         story[currentNodeId].options)]
    /\ UNCHANGED <<retryRun, backgroundQueue, audioCache, analyzeRun, imageCache, speechRun, captureRun>>

MatchNext ==
    \/ \E r \in requests : SynthOk(r)
    \/ \E r \in requests : PlaybackEnd(r)
    \/ OrbClick
    \/ \E x \in OpenSessions : hear(x)

MatchSpec == MatchInit /\ [][MatchNext]_vars

-----------------------------------------------------------------------------
(* The player of a story whose ttsModel is 'browser-tts': every narration is *)
(* played by playBrowserTTS.                                                 *)

LocalInit ==
    /\ story \in Stories
    /\ micAvailable \in BOOLEAN
    /\ hasSynth \in BOOLEAN
    /\ PlayerStarts(MountWith(micAvailable, "browser-tts"))
    /\ ServicesIdle
    /\ matchRun = NoMatchRun

\* No remote synthesis call is made, and the model switcher never opens.
LocalNext ==
    \/ \E r \in requests : PlaybackEnd(r)
    \/ \E r \in requests : FallbackTimer(r)
    \/ \E t \in timers : AdvanceTimer(t)
    \/ \E t \in timers : ListenTimer(t)
    \/ CompleteTimer
    \/ handleBack
    \/ NextButton
    \/ handleReplay
    \/ \E index \in 0..1 : TapOption(index)
    \/ OrbClick
    \/ ExitButton
    \/ \E x \in OpenSessions, final \in BOOLEAN, text \in Utterances :
          RecognitionResult(x, final, text)
    \/ \E x \in LiveSessions : RecognitionEnd(x)
    \/ \E x \in OpenSessions : RecognitionError(x)
    \/ \E c \in calls, outcome \in Outcomes : ClassifyResolve(c, outcome)

LocalSpec == LocalInit /\ [][LocalNext]_vars

-----------------------------------------------------------------------------
(* The end-to-end scenario with the background prefetch of the asset effect: *)
(* prefetchAudio and generateSceneImage for one key each, started and        *)
(* completing at any moment of the play.                                     *)

PrefetchInit == InitWith({StoryEndToEnd}, {TRUE}, BOOLEAN)

PrefetchNext ==
    \/ E2ENext
    \/ prefetchAudio
    \/ \E q \in audioCache.procs : prefetchDb(q)
    \/ \E q \in audioCache.procs : prefetchTask(q)
    \/ \E q \in audioCache.procs : prefetchDb2(q)
    \/ \E q \in audioCache.procs : prefetchFetchOk(q)
    \/ \E q \in audioCache.procs : prefetchFetchFail(q)
    \/ \E q \in audioCache.procs : prefetchDecoded(q)
    \/ generateSceneImage
    \/ imageDb
    \/ imageFetchOk
    \/ imageFetchFail

PrefetchSpec == PrefetchInit /\ [][PrefetchNext]_vars

-----------------------------------------------------------------------------
(* constructNodeSpeech called twice on every node of bounded size; the player *)
(* at rest.                                                                   *)

SpeechChars == {"a", "b", " ", "stop"}

RECURSIVE Strings(_, _)
Strings(chars, n) ==
    IF n = 0 THEN {<<>>}
    ELSE LET shorter == Strings(chars, n - 1)
         IN  shorter \cup {Append(str, c) : str \in shorter, c \in chars}

SpeechLabels == {<<"a">>, <<"b">>, <<"a", "b">>}

SpeechNodes ==
    {SpeechNode(type, text, audioText, question, labels) :
        type \in {"choice", "linear", "end"},
        text \in Strings(SpeechChars, MaxSpeechLen),
        audioText \in {<<>>, <<"b", " ">>},
        question \in {<<>>, <<"a", "ques">>, <<"b">>},
        labels \in Strings(SpeechLabels, MaxLabels)}

SpeechInit ==
    /\ PlayerInit({StoryDangling}, {FALSE}, {FALSE})
    /\ retryRun = RetryIdle /\ backgroundQueue = NewRateLimiter
    /\ audioCache = EmptyAudioCache /\ matchRun = NoMatchRun /\ imageCache = NoImages
    /\ analyzeRun = NoAnalyzeRun
    /\ speechRun \in {[NoSpeechRun EXCEPT !.node = node] : node \in SpeechNodes}
    /\ captureRun = NoCapture

SpeechNext == callConstructNodeSpeech

SpeechSpec == SpeechInit /\ [][SpeechNext]_vars

-----------------------------------------------------------------------------
(* analyzeChildInput on every outcome of its remote call: a failure, or a    *)
(* response text of bounded length; the player at rest.                      *)

RECURSIVE Texts(_)
Texts(n) ==
    IF n = 0 THEN {<<>>}
    ELSE LET shorter == Texts(n - 1)
         IN  shorter \cup {Append(text, part) : text \in shorter, part \in TextParts}

AnalyzeOutcomes == {Outcome(TRUE, <<>>)} \cup {Outcome(FALSE, text) : text \in Texts(MaxTextLen)}

AnalyzeInit ==
    /\ PlayerInit({StoryDangling}, {FALSE}, {FALSE})
    /\ retryRun = RetryIdle /\ backgroundQueue = NewRateLimiter
    /\ audioCache = EmptyAudioCache /\ matchRun = NoMatchRun /\ imageCache = NoImages
    /\ speechRun = NoSpeechRun
    /\ captureRun = NoCapture
    /\ analyzeRun \in {[NoAnalyzeRun EXCEPT !.pc = "called", !.outcome = o] :
                          o \in AnalyzeOutcomes}

AnalyzeNext == analyzeChildInput

AnalyzeSpec == AnalyzeInit /\ [][AnalyzeNext]_vars

-----------------------------------------------------------------------------
(* Properties *)

\* C1: when a classification call resolves after the engine has moved from the
\* choice node it was started on to another node, that step changes neither
\* currentNodeId nor interactionState, emits no choice event and starts no
\* narration (no request is issued, the request token is untouched).
C1_StaleClassificationIgnored ==
    [][(last'.op = "classified" /\ last'.stale) =>
          /\ currentNodeId' = currentNodeId
          /\ interactionState' = interactionState
          /\ choices' = choices
          /\ requests' = requests
          /\ activeRequestId' = activeRequestId]_vars

\* A classification call has just resolved on a node other than the one it was started on.
C1_Witness == last.op = "classified" /\ last.stale

\* The operations that deliver an asynchronous result to the player.
AsyncOps == {"nodeEnd", "ackEnd", "promptEnd", "advanceTimer", "listenTimer", "classified"}

\* The step neither moved the player, nor changed its interaction state, nor
\* emitted a choice event, nor issued a narration request, nor scheduled anything.
Discarded ==
    /\ currentNodeId' = currentNodeId
    /\ interactionState' = interactionState
    /\ choices' = choices
    /\ activeRequestId' = activeRequestId
    /\ timers' \subseteq timers
    /\ pendingComplete' = pendingComplete
    /\ retryCountRef' = retryCountRef
    /\ calls' \subseteq calls

\* C2: an asynchronous result (narration end, auto-advance or listen timer,
\* classification result, prompt completion) scheduled in a visit of a node that
\* has ended is discarded, also when the same node id is current again.
C2_EndedVisitResultDiscarded ==
    [][(last'.op \in AsyncOps /\ last'.left) => Discarded]_vars

\* C3: the end of a capture session that was opened on a node other than the
\* current one matches nothing, prompts nothing and changes nothing.
C3_ForeignTranscriptIgnored ==
    [][(last'.op = "speechEnd" /\ last'.stale) =>
          Discarded /\ speechHistoryRef' = speechHistoryRef]_vars

OpenAfter == {x \in orphans' \cup {recognitionRef'} : x.phase = "open"}

\* C4: a step that changes currentNodeId leaves (a) no capture session of the
\* previous node open and (b) the request token of before the change superseded:
\* the current request is the new node's narration, issued in this step.
C4_NodeChangeCancels ==
    [][currentNodeId' # currentNodeId =>
          /\ \A x \in OpenAfter : x.node # currentNodeId
          /\ activeRequestId' > activeRequestId
          /\ \A r \in requests' : r.id <= activeRequestId => r.id # activeRequestId']_vars

\* The request whose token is current.
CurrentRequest == CHOOSE r \in requests : r.id = activeRequestId

\* The acknowledgement that has just ended was of an option whose next node is missing.
DanglingChoice ==
    /\ last'.op = "ackEnd" /\ ~last'.stale
    /\ story[CurrentRequest.node].options[CurrentRequest.opt + 1].next \notin DOMAIN story

\* The narration that has just ended was of a linear node whose next node is missing.
DanglingNarration ==
    /\ last'.op = "nodeEnd" /\ ~last'.stale
    /\ CurrentRequest.node = currentNodeId
    /\ story[currentNodeId].type = "linear"
    /\ story[currentNodeId].next \notin DOMAIN story

\* The Next button has just been pressed on a linear node whose next node is missing.
DanglingNext == last'.op = "next" /\ story[currentNodeId].next \notin DOMAIN story

\* C5: currentNodeId is always a node of the story; a step whose successor id is
\* missing from the story keeps currentNodeId and ends the session: onComplete is
\* called (Next button, chosen option) or scheduled (narration end).
C5_NodeAlwaysExists ==
    /\ currentNodeId \in DOMAIN story
    /\ [][/\ currentNodeId' \in DOMAIN story
          /\ (DanglingNext \/ DanglingChoice) =>
                (currentNodeId' = currentNodeId /\ completes' = completes + 1)
          /\ DanglingNarration =>
                (currentNodeId' = currentNodeId /\ pendingComplete' = pendingComplete + 1)]_vars

\* An option pointing at a missing node was chosen: the session is complete and
\* the player never left the node.
C5_Witness ==
    /\ last.op = "ackEnd" /\ completes = 1 /\ currentNodeId = "start"
    /\ story = StoryChoiceStart
    /\ Len(choices) = 1 /\ choices[1].selection = <<"B">>

\* The failed request r is gone: nothing plays for it.
Dropped(r) == \A q \in requests' : q.id # r.id

\* The failed request r is now played by the local voice.
LocalPlayback(r) == \E q \in requests' : q.id = r.id /\ q.phase = "playing" /\ q.path = "local"

\* The failed request r completes after the one-second timer, without any sound.
SilentTimer(r) == \E q \in requests' : q.id = r.id /\ q.phase = "timer"

\* A remote synthesis call of the request that is current has just failed.
CurrentSynthFailed == last'.op \in FaultOps /\ ~last'.stale

\* C6 as stated: for every kind of request, a quota failure opens the model
\* switcher and starts no local playback; any other failure starts local playback
\* and does not open the switcher.
C6_QuotaAlwaysOpensSwitcher ==
    [][CurrentSynthFailed =>
          IF last'.op = "synthQuota"
          THEN showModelSwitcher' /\ Dropped(CurrentRequest)
          ELSE LocalPlayback(CurrentRequest) /\ (showModelSwitcher' = showModelSwitcher)]_vars

\* C6 as the code has it: a quota failure of a node narration opens the model
\* switcher and starts no playback; a quota failure of an acknowledgement or a
\* prompt, and any other failure, leaves the switcher as it is and takes the
\* local path: the local voice where speechSynthesis exists, else the silent timer.
C6_QuotaOfNodeNarrationOpensSwitcher ==
    [][CurrentSynthFailed =>
          IF last'.op = "synthQuota" /\ CurrentRequest.kind = "node"
          THEN showModelSwitcher' /\ Dropped(CurrentRequest)
          ELSE /\ showModelSwitcher' = showModelSwitcher
               /\ IF hasSynth THEN LocalPlayback(CurrentRequest)
                              ELSE SilentTimer(CurrentRequest)]_vars

\* An acknowledgement failed on quota and is played by the local voice; the
\* switcher is closed.
C6_Witness ==
    /\ last.op = "synthQuota" /\ ~last.stale /\ ~showModelSwitcher
    /\ \E q \in requests : q.id = activeRequestId /\ q.kind = "ack" /\ q.path = "local"

\* C7: choosing a model in the model switcher issues a new narration request
\* for the current node, keeps currentNodeId and closes the switcher.
C7_ModelChoiceRestartsNarration ==
    [][last'.op = "modelSwitch" =>
          /\ currentNodeId' = currentNodeId
          /\ ~showModelSwitcher'
          /\ \E r \in requests' :
                /\ r.id = activeRequestId' /\ r.id > activeRequestId
                /\ r.kind = "node" /\ r.node = currentNodeId]_vars

\* No capture session exists and the player is not listening.
NeverListening ==
    /\ interactionState # "listening"
    /\ recognitionRef.phase \notin {"open", "ending", "aborted"}
    /\ orphans = {}

\* The narration of the current node, a choice node, has just ended (action level).
ChoiceNarrationEnded ==
    /\ last'.op = "nodeEnd" /\ ~last'.stale
    /\ CurrentRequest.node = currentNodeId
    /\ story[currentNodeId].type = "choice"

\* C8: without speech capture the player is never listening, no capture session
\* is ever opened, and the narration end of a choice node leaves it waiting.
C8_NoMicNeverListens ==
    /\ ~micAvailable => NeverListening
    /\ [][~micAvailable =>
             /\ NeverListening'
             /\ ChoiceNarrationEnded => interactionState' = "waiting"]_vars

\* Without speech capture the narration of a choice node has ended and the player waits.
C8_Witness ==
    /\ ~micAvailable /\ last.op = "nodeEnd" /\ ~last.stale
    /\ story[currentNodeId].type = "choice" /\ interactionState = "waiting"

\* C9: with speech capture, the narration end of a choice node that is current
\* puts the player in listening, and the timer it sets opens a capture session.
C9_MicListensAfterChoiceNarration ==
    [][micAvailable =>
          /\ ChoiceNarrationEnded => interactionState' = "listening"
          /\ (last'.op = "listenTimer" /\ ~last'.stale) => OpenAfter # {}]_vars

\* The narration of the current node has just ended.
NarrationEnded(node) ==
    last.op = "nodeEnd" /\ ~last.stale /\ mounted /\ currentNodeId = node

\* The capture session of q1 has just ended and handed over the transcript "A".
HeardA ==
    /\ last.op = "speechEnd" /\ ~last.stale /\ last.how = "open" /\ last.arg = <<"A">>
    /\ mounted /\ currentNodeId = "q1"

\* C11: in the end-to-end story, without user gestures: the narration end of
\* start leads to q1; the transcript "A" at q1 starts no remote classification
\* call and leads to endA; the narration end of endA leads to onComplete.
C11_EndToEnd ==
    /\ NarrationEnded("start") ~> (currentNodeId = "q1")
    /\ [][HeardA' => calls' = calls]_vars
    /\ HeardA ~> (currentNodeId = "endA")
    /\ NarrationEnded("endA") ~> (completes > 0)

\* The session is complete at endA after one choice, made by saying "A" at q1.
C11_Witness ==
    /\ story = StoryEndToEnd /\ last.op = "complete" /\ completes = 1
    /\ currentNodeId = "endA" /\ calls = {}
    /\ Len(choices) = 1 /\ choices[1].step = "q1" /\ choices[1].selection = <<"A">>
    /\ choices[1].transcript = <<"A">>

\* The steps in which a playback path reaches the point of calling onEnd.
EndOps == {"nodeEnd", "ackEnd", "promptEnd"}

\* C12: the request token never decreases, and when a playback path of a
\* request whose token is no longer current reaches its end, onEnd is not
\* invoked: the step changes nothing but the bookkeeping of the request.
C12_OnlyCurrentTokenCallsBack ==
    /\ [][activeRequestId' >= activeRequestId]_vars
    /\ [][(last'.op \in EndOps /\ last'.stale) => Discarded]_vars

\* The narration sources that are sounding: started and not stopped.
PlayingSources == {r \in requests : r.phase = "playing"}

\* C13: at most one narration source is playing, and it belongs to the request
\* holding the current token; every source of an earlier request has been
\* stopped.
C13_SinglePlayingSource ==
    /\ Cardinality(PlayingSources) <= 1
    /\ \A r \in PlayingSources : r.id = activeRequestId

\* A source plays while the source of an earlier request, which was stopped
\* while it played, has not yet reported its end.
C13_Witness ==
    \E r, q \in requests :
        /\ r.phase = "playing" /\ q.phase = "stopped" /\ q.id < r.id

\* The user gestures whose handler calls abortListening on every path.
AbortOps == {"replay", "exit"}

\* C14: a step that calls abortListening leaves no capture session open, and
\* the end of an aborted session does not reach onEnd: it changes nothing of
\* the player, not even through an empty transcript.
C14_AbortedSessionIsSilent ==
    /\ [][last'.op \in AbortOps => OpenAfter = {}]_vars
    /\ [][(last'.op = "speechEnd" /\ last'.how = "aborted") =>
             Discarded /\ speechHistoryRef' = speechHistoryRef]_vars

\* What the only live capture session has produced so far: its accumulated
\* final transcript, or else the text of its last result.
SessionText == IF finalTranscriptRef # <<>> THEN finalTranscriptRef ELSE transcript

\* C15: when a capture session ends by itself or by stop (not aborted, not
\* failed), onEnd receives the final transcript accumulated in the session, or
\* its last interim text when it produced no final result.
C15_EndDeliversSessionText ==
    [][(last'.op = "speechEnd" /\ last'.how = "open" /\ Cardinality(LiveSessions) = 1)
          => last'.arg = SessionText]_vars

\* C16: at most one capture session is open at any time, and the session that
\* is open is the one of the instance startListening and abortListening act on.
C16_SingleOpenSession ==
    /\ Cardinality(OpenSessions) <= 1
    /\ OpenSessions \subseteq {recognitionRef}

\* A rate-limit error: a 429 that does not carry the quota-exhausted wording.
RateLimitError(error) == isQuotaError(error) /\ ~isLimitZero(error)

\* Every attempt so far has failed with a rate-limit error.
OnlyRateLimited ==
    \A i \in 1..Len(retryRun.failures) : RateLimitError(retryRun.failures[i])

Backoff == <<2000, 4000, 8000>>

RetryDone == retryRun.pc = "done"

\* C17: a call whose attempts fail with rate-limit errors only: after N <= 3
\* failures it does not give up, and when the next attempt succeeds it returns
\* the success having waited 2000, 4000, 8000 ms (the first N of them); the
\* operation is invoked at most 4 times, the 4th rate-limit error is
\* propagated; every call terminates.
C17_RateLimitRetried ==
    /\ [](OnlyRateLimited /\ RetryDone /\ Len(retryRun.failures) <= 3 => retryRun.result.ok)
    /\ [](OnlyRateLimited /\ RetryDone /\ retryRun.result.ok =>
             retryRun.delays = SubSeq(Backoff, 1, Len(retryRun.failures)))
    /\ [](retryRun.opCalls <= 4)
    /\ [](OnlyRateLimited /\ Len(retryRun.failures) = 4 =>
             /\ RetryDone /\ ~retryRun.result.ok
             /\ retryRun.result.error = retryRun.failures[4]
             /\ retryRun.delays = Backoff)
    /\ (retryRun.pc = "try") ~> RetryDone

\* The call succeeded at its fourth attempt after three rate-limit errors.
C17_Witness ==
    /\ RetryDone /\ retryRun.result.ok /\ OnlyRateLimited
    /\ Len(retryRun.failures) = 3 /\ retryRun.opCalls = 4 /\ retryRun.delays = Backoff

\* The attempt of this step has failed with error.
Caught(error) == retryRun'.failures = Append(retryRun.failures, error)

\* The call ends in this step, propagating error, without a further delay.
Propagated(error) ==
    /\ retryRun'.pc = "done"
    /\ retryRun'.result = [ok |-> FALSE, error |-> error]
    /\ retryRun'.delays = retryRun.delays

AuthErrors == {ErrAuth, ErrNoKey}
QuotaErrors == {ErrLimitZero, ErrQuotaExceeded}

\* C18: an attempt that fails with an authentication or configuration error
\* ends the call with that same error, one that fails with quota exhaustion
\* ends it with QuotaExhaustedError; no delay is waited and no attempt follows.
C18_NoRetryOnAuthOrQuota ==
    /\ [][\A error \in AuthErrors : Caught(error) => Propagated(error)]_vars
    /\ [][\A error \in QuotaErrors : Caught(error) => Propagated(QuotaExhaustedError)]_vars
    /\ [][RetryDone => retryRun' = retryRun]_vars

\* The second attempt, after one rate-limit error, met quota exhaustion.
C18_Witness ==
    /\ RetryDone /\ retryRun.failures = <<ErrRateStatus, ErrLimitZero>>
    /\ retryRun.result = [ok |-> FALSE, error |-> QuotaExhaustedError]
    /\ retryRun.delays = <<2000>> /\ retryRun.opCalls = 2

RateLimitErrors == {ErrRateStatus, ErrRateCode, ErrRateMessage}
TransientErrors == RateLimitErrors \cup {ErrNetwork, ErrServer}

\* The call waits in this step for the next delay of the doubling series.
BacksOff ==
    /\ retryRun'.pc = "wait"
    /\ retryRun'.delays = Append(retryRun.delays, DefaultBaseDelay * 2 ^ Len(retryRun.delays))
    /\ Len(retryRun'.delays) <= 3

TaskStarts == Len(backgroundQueue'.started) > Len(backgroundQueue.started)

\* C20: the rate limiter runs at most one task at a time, starts the tasks in
\* the order they were added, and starts a task only when the inter-task delay
\* has elapsed since the previous task ended, whenever the task was added.
C20_OneAtATimeWithGap ==
    /\ [](Cardinality(backgroundQueue.inFlight) <= 1)
    /\ [](\A i \in 1..Len(backgroundQueue.started) : backgroundQueue.started[i] = i)
    /\ [][TaskStarts => backgroundQueue.ended = 0 \/ backgroundQueue.elapsed >= gap]_vars

\* Task number t of the rate limiter has been started.
Started(t) == \E i \in 1..Len(backgroundQueue.started) : backgroundQueue.started[i] = t

\* C21: every task added to the rate limiter is eventually started, and has
\* eventually settled, whether the tasks before it succeeded or failed and
\* whether it was added to an idle limiter, behind a running task or during
\* the inter-task delay.
C21_EveryTaskRuns ==
    \A t \in 1..MaxTasks :
        /\ (backgroundQueue.added >= t) ~> Started(t)
        /\ (backgroundQueue.added >= t) ~> (backgroundQueue.ended >= t)

\* A task that was queued behind a running loop has run after the task before
\* it had failed.
C21_Witness ==
    \E t \in backgroundQueue.queuedBehind :
        /\ Started(t) /\ (t - 1) \in backgroundQueue.rejected
        /\ backgroundQueue.ended >= t

\* The remote synthesis calls for the key that are in flight.
InFlightSynth == {p \in audioCache.procs : p.pc = "fetch"}

\* C22: at most one remote synthesis call for a cache key is in flight at a
\* time, whatever the interleaving of prefetchAudio and playTextToSpeech
\* requests for the key.
C22_OneSynthesisPerKey == Cardinality(InFlightSynth) <= 1

\* C23: once a remote synthesis call for the key has returned audio, the
\* audio is in the store, and no later request for the key starts a remote
\* synthesis call.
C23_SynthesizedOnce ==
    /\ [](audioCache.succeeded > 0 => audioCache.db)
    /\ [][audioCache'.calls > audioCache.calls => audioCache.succeeded = 0]_vars

\* Option number i (from 0) matches the transcript: the lower-cased transcript
\* contains its lower-cased label or one of its lower-cased keywords.
Matches(tr, options, i) ==
    LET opt == options[i + 1]
    IN  \/ includes(toLowerCase(tr), toLowerCase(opt.label))
        \/ \E k \in 1..Len(opt.keywords) :
              includes(toLowerCase(tr), toLowerCase(opt.keywords[k]))

MatchDone == matchRun.pc = "done"
MatchedOptions == story["start"].options

\* C24: matchIntentLocally returns the smallest index of an option that
\* matches the transcript, null when none matches; and when it returns an
\* index, handling the transcript starts no remote classification call.
C24_SmallestLocalMatch ==
    MatchDone =>
       LET tr == matchRun.transcript
           hits == {i \in 0..(Len(MatchedOptions) - 1) : Matches(tr, MatchedOptions, i)}
       IN  /\ hits = {} => matchRun.result = null
           /\ hits # {} => /\ matchRun.result \in hits
                           /\ \A j \in hits : matchRun.result <= j
                           /\ calls = {}

\* The second option matched by a keyword, the first did not match, and the
\* choice was taken without a remote call.
C24_Witness ==
    /\ MatchDone /\ matchRun.result = 1 /\ matchRun.transcript = <<"A", "a">>
    /\ MatchedOptions[2].label = <<"B">> /\ calls = {}
    /\ interactionState = "guiding"

ValidActions == {"SELECT_OPTION", "ASK_CLARIFICATION"}

AnalyzeSettled == analyzeRun.pc = "settled"

\* C25: analyzeChildInput does not throw, and unless the response text holds
\* a JSON object with a valid action, its result is an object with action
\* 'UNKNOWN'.
C25_UnknownOnBadResponse ==
    AnalyzeSettled =>
       /\ ~analyzeRun.result.threw
       /\ \/ ~analyzeRun.result.isNull /\ analyzeRun.result.action \in ValidActions
          \/ ~analyzeRun.result.isNull /\ analyzeRun.result.action = "UNKNOWN"

\* C26: when the classification of a transcript resolves to 'UNKNOWN' at the
\* node it was asked for, the player enters 'waiting' (tap to choose) and
\* neither opens a capture session nor starts a prompt that will open one.
C26_UnknownFallsBackToTap ==
    [][(last'.op = "classified" /\ last'.how = "unknown") =>
          /\ interactionState' = "waiting"
          /\ ~isListening'
          /\ ~\E r \in requests' : r.kind = "prompt" /\ r.id = activeRequestId']_vars

\* A step of the background prefetch: of prefetchAudio or of generateSceneImage.
PrefetchStep == audioCache' # audioCache \/ imageCache' # imageCache

\* C27: no step of the background prefetch (a call, a cache hit, a synthesis
\* that succeeds or fails, an illustration) changes currentNodeId, the
\* interaction state or the session history.
C27_PrefetchLeavesPlayerAlone ==
    [][PrefetchStep => UNCHANGED <<currentNodeId, interactionState, history>>]_vars

\* A prefetch has failed, another has succeeded and the illustration is
\* stored, while the play has moved on from the start node.
C27_Witness ==
    /\ \E q \in audioCache.procs : q.kind = "prefetch" /\ q.pc = "rejected"
    /\ \E q \in audioCache.procs : q.kind = "prefetch" /\ q.pc = "resolved"
    /\ imageCache.stored /\ imageCache.calls = MaxImages /\ imageCache.pc = "idle"
    /\ currentNodeId # "start" /\ history # <<>>

\* A transition to another node that is not the Back button's.
ForwardTransition == currentNodeId' # currentNodeId /\ last'.op # "back"

\* C28: a forward transition from node X appends X to the session history.
C28_ForwardPushesCurrent ==
    [][ForwardTransition => history' = Append(history, currentNodeId)]_vars

\* The step emits the choice event of the acknowledgement r of a choice made
\* at node r.node, and attempts the transition to the option's successor.
EmitsFor(r) ==
    LET option == story[r.node].options[r.opt + 1]
    IN  /\ choices' = Append(choices, [step |-> r.node, selection |-> option.label,
                                       type |-> option.type, transcript |-> r.text,
                                       speechHistory |-> speechHistoryRef])
        /\ \/ ~mounted
           \/ option.next \in DOMAIN story /\ currentNodeId' = option.next
           \/ option.next \notin DOMAIN story
              /\ pendingComplete' + completes' > pendingComplete + completes

\* The acknowledgement whose end the step handles.
EndedAck == {r \in requests \ requests' : r.kind = "ack"}

\* The list of utterances is emptied when the node changes, and is extended
\* only by a non-empty transcript that handleSpeechEnd accepts.
UtterancesOfVisit ==
    [][/\ currentNodeId' # currentNodeId => speechHistoryRef' = <<>>
       /\ (currentNodeId' = currentNodeId /\ speechHistoryRef' # speechHistoryRef) =>
              /\ last'.op = "speechEnd" /\ trim(last'.arg) # <<>>
              /\ speechHistoryRef' = Append(speechHistoryRef, trim(last'.arg))]_vars

\* C29: a step emits a choice event exactly when it handles the end of the
\* acknowledgement of a choice; the event is one, it names the node of the
\* choice, the label and the category of the selected option and the
\* utterances of the visit, and the transition to the option's successor is
\* attempted in the same step.
C29_OneEventPerChoice ==
    /\ UtterancesOfVisit
    /\ [][(choices' # choices \/ (last'.op = "ackEnd" /\ ForwardTransition)) =>
             \E r \in EndedAck : EmitsFor(r)]_vars

\* The places of str at which sub begins.
Occurrences(str, sub) ==
    {i \in 1..(Len(str) - Len(sub) + 1) : SubSeq(str, i, i + Len(sub) - 1) = sub}

SpokenTwice == speechRun.pc = "twice"

ChoiceSpoken == speechRun.pc # "idle" /\ speechRun.node.type = "choice"

Deterministic == SpokenTwice => speechRun.second = speechRun.first

PromptWords == Tail(OptionsPrompt)

\* What follows the options prompt in the speech.
AfterPrompt(str) ==
    LET at == Occurrences(str, PromptWords)
        i == CHOOSE i \in at : \A j \in at : j <= i
    IN  SubSeq(str, i + Len(PromptWords), Len(str))

SafePhrase == <<"please", " ", "look", " ", "at", " ", "the", " ", "screen">>

\* The node has neither a text to read nor a spoken override.
NothingToRead == trim(speechRun.node.text) = <<>> /\ trim(speechRun.node.audioText) = <<>>

\* C31: for a node whose text and spoken override are both empty,
\* constructNodeSpeech returns the safe phrase, never the empty string.
C31_SafePhraseWhenEmpty ==
    (speechRun.pc # "idle" /\ NothingToRead) =>
        speechRun.first # <<>> /\ speechRun.first = SafePhrase

\* C32: 'processing' is never a dead end. Only the continuation of a
\* classification call can take the player out of 'processing' (the local
\* match is handled in the step that sets it), so whenever the mounted player
\* is in 'processing', a classification call for the current node is in flight.
C32_ProcessingNeverDeadEnd ==
    (mounted /\ interactionState = "processing") =>
        \E c \in calls : c.node = currentNodeId

\* The step handles the end of a capture session with an empty transcript at
\* a choice node.
EmptyResult ==
    /\ mounted /\ last'.op = "speechEnd" /\ trim(last'.arg) = <<>>
    /\ story[currentNodeId].type = "choice" /\ story[currentNodeId].options # <<>>

\* The step opens a capture session.
OpensSession == recognitionRef'.phase = "open" /\ recognitionRef.phase # "open"

\* After the step, the end of the narration or of the prompt of the current
\* request, or a listen timer, will open a capture session by itself.
SessionWillOpen ==
    \/ \E r \in requests' : r.kind \in {"node", "prompt"} /\ r.id = activeRequestId'
    \/ \E t \in timers' : t.type = "listen" /\ t.node = currentNodeId'

\* An empty result is answered by the prompt that reopens capture while the
\* retry counter is below 2; from then on by 'waiting', with no capture
\* session opened or about to open.
EmptyResultBounded ==
    [][EmptyResult =>
          IF retryCountRef < 2
          THEN retryCountRef' = retryCountRef + 1 /\ interactionState' = "guiding"
          ELSE retryCountRef' = retryCountRef /\ interactionState' = "waiting"
               /\ ~OpensSession /\ ~SessionWillOpen]_vars

\* The retry counter never decreases during a visit and is 0 after a change
\* of node.
RetryCounterPerVisit ==
    [][IF currentNodeId' # currentNodeId THEN retryCountRef' = 0
       ELSE retryCountRef' >= retryCountRef]_vars

C34_NoCaptureWhileNarrating ==
    (mounted /\ interactionState \in {"reading", "guiding"}) => OpenSessions = {}

\* The synthesis call of the narration has failed in this step, every attempt
\* of withRetry having failed with a rate-limit error and no retry being left.
RateLimitedToTheEnd ==
    /\ last'.op \in FaultOps /\ retryRun.pc = "done"
    /\ OnlyRateLimited /\ Len(retryRun.failures) = DefaultRetries + 1

\* C35: a node narration whose synthesis call still fails with a rate-limit
\* error after withRetry has used up its retries shows the model-switch choice
\* and starts no local-voice playback.
C35_RateLimitShowsModelSwitch ==
    [][RateLimitedToTheEnd => showModelSwitcher' /\ \A q \in requests' : q.path = "cloud"]_vars

\* The session of instance x is open: started and not stopped or ended.
CaptureOpen(x) == x <= Len(captureRun.instances) /\ captureRun.instances[x].phase = "open"

\* C36: no capture session stays open indefinitely: the no-speech timer or
\* the silence timer stops every session, the first one after mount and the
\* ones that follow a session with results included.
C36_NoSessionOpenForever ==
    \A x \in 1..MaxInstances : CaptureOpen(x) ~> ~CaptureOpen(x)

\* C37: onComplete is delivered at most once in a playback session, whatever
\* the user does, Replay during the grace delay after the narration of an end
\* node (or of a linear node without an existing successor) included.
C37_CompleteAtMostOnce == completes <= 1

\* The narration end of node n schedules onComplete: n is an end node, or a
\* linear node without an existing successor. Such a node has no successor to
\* go to, so the node before it in the history never is one.
SchedulesComplete(n) ==
    \/ story[n].type = "end"
    \/ story[n].type = "linear" /\ story[n].next \notin DOMAIN story

\* The grace delay of a scheduled onComplete elapses in this step.
GraceDelayElapses == last'.op = "complete" /\ pendingComplete' < pendingComplete

\* C38: when the grace delay of an onComplete scheduled by the narration end
\* of a node elapses, onComplete is delivered only if the player has not been
\* exited and that node is still the current one; otherwise nothing is
\* delivered and the node does not change.
C38_CompleteOnlyAtItsNode ==
    [][GraceDelayElapses =>
          /\ currentNodeId' = currentNodeId
          /\ (completes' > completes) => (mounted /\ SchedulesComplete(currentNodeId))]_vars

\* A capture session of the hook has ended: onEnd was called for it.
CaptureEnded == captureRun.ended.at # 0

\* C39: the transcript that onEnd receives for a capture session is made of
\* text recognized in that session only; for a session in which nothing was
\* recognized it is empty.
C39_EndDeliversOwnText ==
    CaptureEnded =>
        /\ \A i \in 1..Len(captureRun.ended.result) :
              \E j \in 1..Len(captureRun.ended.heard) :
                 captureRun.ended.heard[j] = captureRun.ended.result[i]
        /\ captureRun.ended.heard = <<>> => captureRun.ended.result = <<>>

\* What handleSpeechEnd may change: the interaction state, the counters of the
\* visit, the narration unit, the classifier calls and the choice made.
EngineState ==
    <<currentNodeId, interactionState, retryCountRef, speechHistoryRef, activeRequestId,
      requests, calls, choices, history>>

\* C40: a speech-end event is acted upon only in the state 'listening'; one
\* that arrives in 'reading', 'guiding', 'processing' or 'waiting' changes
\* nothing and starts no prompt, so what is playing goes on.
C40_SpeechEndOnlyWhenListening ==
    [][(last'.op = "speechEnd" /\ mounted /\ interactionState # "listening")
          => EngineState' = EngineState]_vars

\* The narration of the current node, an end node, has just finished.
EndNarrationFinished ==
    last.op = "nodeEnd" /\ ~last.stale /\ mounted /\ story[currentNodeId].type = "end"

\* C10: once the narration of an end node finishes while that node is current,
\* onComplete is eventually delivered.
C10_EndNodeCompletes == EndNarrationFinished ~> (completes > 0)

\* onComplete has been delivered from an end node reached through a choice.
C10_Witness ==
    last.op = "complete" /\ completes = 1 /\ story[currentNodeId].type = "end" /\ choices # <<>>
====
